---------------------------- MODULE Spec2Model ----------------------------
(***************************************************************************)
(* Model of the jp-edge-tts synthesis runtime: the result cache            *)
(* (CacheManager, src/src/core/cache_manager.cpp), the worker pool         *)
(* (ThreadPool, src/src/utils/thread_pool.cpp) and the request             *)
(* orchestrator (TTSEngine, tts_engine.cpp = src/unnamed/part_004).        *)
(*                                                                         *)
(* Sizes are counted in abstract units: one unit is the fixed part of a    *)
(* cached TTSResult, and one audio sample costs one unit.  Time is counted *)
(* in whole seconds, as IsExpired does after its duration_cast.            *)
(***************************************************************************)
EXTENDS Integers, Sequences, FiniteSets, TLC

\* ------------------------------------------------------------------------
\* Bounds of the model
\* ------------------------------------------------------------------------
MaxSamples == 1
MaxCacheBytes == 3
MaxTTL == 1
MaxStat == 1

\* the clock runs just far enough for an entry to outlive the largest TTL
MaxTime == MaxTTL + 1

Keys == {"k1", "k2", "k3"}

\* Engine model: requests issued in one run, and config.max_cache_size_mb
\* (in the size units above)
MaxRequests == 2
EngineCacheBytes == 3
NumWorkers == 1
\* Audio buffers hold at most MaxAudioLen samples.
MaxAudioLen == 2
\* Vocabulary files hold at most MaxLines entries with ids in 0..MaxId.
MaxLines == 2
MaxId == 2

Nullopt == [has_value |-> FALSE]

Some(v) == [has_value |-> TRUE, value |-> v]

\* ------------------------------------------------------------------------
\* Sequence helpers
\* ------------------------------------------------------------------------
SeqToSet(s) == {s[i] : i \in 1..Len(s)}

SeqRemove(s, x) == SelectSeq(s, LAMBDA y : y # x)

IndexOf(s, x) == CHOOSE i \in 1..Len(s) : s[i] = x

MapRemove(f, k) == [x \in (DOMAIN f) \ {k} |-> f[x]]

MapPut(f, k, v) == [x \in (DOMAIN f) \cup {k} |-> IF x = k THEN v ELSE f[x]]

EmptyMap == [x \in {} |-> 0]

\* ------------------------------------------------------------------------
\* CacheManager (result cache): pure operators over the Impl record
\*   impl.cache              key -> CacheEntry
\*   impl.lru_list           list of keys, front (index 1) = most recent
\*   impl.lru_map            keys that own an iterator into lru_list
\*   impl.max_size_bytes, impl.current_size_bytes, impl.ttl_seconds
\*   impl.hits, impl.misses, impl.evictions
\* CacheEntry.last_access and access_count are written by Get and Put and
\* read by nothing; they are left out of the entry.
\* ------------------------------------------------------------------------
NewCacheImpl(max) ==
    [cache |-> EmptyMap, lru_list |-> <<>>, lru_map |-> {},
     max_size_bytes |-> max, current_size_bytes |-> 0, ttl_seconds |-> 0,
     hits |-> 0, misses |-> 0, evictions |-> 0]

\* A MoveLRU that leaves a key already in the list where it is.
MoveLRU_NoReorder(impl, key) ==
    IF key \in impl.lru_map THEN impl
    ELSE [impl EXCEPT !.lru_list = <<key>> \o impl.lru_list,
                      !.lru_map = impl.lru_map \cup {key}]

MoveLRU(impl, key) ==
    LET erased == IF key \in impl.lru_map THEN SeqRemove(impl.lru_list, key)
                  ELSE impl.lru_list
    IN [impl EXCEPT !.lru_list = <<key>> \o erased,
                    !.lru_map = impl.lru_map \cup {key}]

\* A RemoveLRU that erases the list node and keeps the iterator.
RemoveLRU_ListOnly(impl, key) ==
    IF key \in impl.lru_map
    THEN [impl EXCEPT !.lru_list = SeqRemove(impl.lru_list, key)]
    ELSE impl

RemoveLRU(impl, key) ==
    IF key \in impl.lru_map
    THEN [impl EXCEPT !.lru_list = SeqRemove(impl.lru_list, key),
                      !.lru_map = impl.lru_map \ {key}]
    ELSE impl

\* An EvictLRU that never evicts the most recent entry.
RECURSIVE EvictLRU_KeepNewest(_)
EvictLRU_KeepNewest(impl) ==
    IF Len(impl.lru_list) > 1 /\ impl.current_size_bytes > impl.max_size_bytes
    THEN LET oldest_key == impl.lru_list[Len(impl.lru_list)]
         IN EvictLRU_KeepNewest(
              [impl EXCEPT !.lru_list = SubSeq(impl.lru_list, 1, Len(impl.lru_list) - 1),
                           !.current_size_bytes = impl.current_size_bytes - impl.cache[oldest_key].memory_size,
                           !.cache = MapRemove(impl.cache, oldest_key),
                           !.evictions = impl.evictions + 1,
                           !.lru_map = impl.lru_map \ {oldest_key}])
    ELSE impl

RECURSIVE EvictLRU(_)
EvictLRU(impl) ==
    IF impl.lru_list # <<>> /\ impl.current_size_bytes > impl.max_size_bytes
    THEN LET oldest_key == impl.lru_list[Len(impl.lru_list)]
             popped == [impl EXCEPT !.lru_list = SubSeq(impl.lru_list, 1, Len(impl.lru_list) - 1)]
             erased == IF oldest_key \in DOMAIN popped.cache
                       THEN [popped EXCEPT
                               !.current_size_bytes = popped.current_size_bytes - popped.cache[oldest_key].memory_size,
                               !.cache = MapRemove(popped.cache, oldest_key),
                               !.evictions = popped.evictions + 1]
                       ELSE popped
         IN EvictLRU([erased EXCEPT !.lru_map = erased.lru_map \ {oldest_key}])
    ELSE impl

CalculateMemorySize(result) == 1 + result.samples

\* An IsExpired without the "0 = no expiry" test.
IsExpired_NoDisable(impl, entry, t) == (t - entry.created) > impl.ttl_seconds

IsExpired(impl, entry, t) ==
    IF impl.ttl_seconds <= 0 THEN FALSE
    ELSE (t - entry.created) > impl.ttl_seconds

\* Get returns the new Impl and the optional result.
Get(impl, key, t) ==
    IF key \in DOMAIN impl.cache
    THEN IF IsExpired(impl, impl.cache[key], t)
         THEN LET dropped == RemoveLRU([impl EXCEPT !.current_size_bytes =
                                   impl.current_size_bytes - impl.cache[key].memory_size], key)
              IN [impl |-> [dropped EXCEPT !.cache = MapRemove(dropped.cache, key),
                                           !.misses = dropped.misses + 1],
                  ret |-> Nullopt]
         ELSE [impl |-> [MoveLRU(impl, key) EXCEPT !.hits = impl.hits + 1],
               ret |-> Some(impl.cache[key].result)]
    ELSE [impl |-> [impl EXCEPT !.misses = impl.misses + 1], ret |-> Nullopt]

Put(impl, key, result, t) ==
    LET memory_size == CalculateMemorySize(result)
        stored ==
          IF key \in DOMAIN impl.cache
          THEN [impl EXCEPT
                  !.current_size_bytes = impl.current_size_bytes - impl.cache[key].memory_size + memory_size,
                  !.cache = MapPut(impl.cache, key,
                                   [impl.cache[key] EXCEPT !.result = result, !.memory_size = memory_size])]
          ELSE [impl EXCEPT
                  !.cache = MapPut(impl.cache, key,
                                   [result |-> result, created |-> t, memory_size |-> memory_size]),
                  !.current_size_bytes = impl.current_size_bytes + memory_size]
    IN EvictLRU(MoveLRU(stored, key))

Has(impl, key, t) ==
    IF key \in DOMAIN impl.cache THEN ~IsExpired(impl, impl.cache[key], t) ELSE FALSE

Remove(impl, key) ==
    IF key \in DOMAIN impl.cache
    THEN LET dropped == RemoveLRU([impl EXCEPT !.current_size_bytes =
                              impl.current_size_bytes - impl.cache[key].memory_size], key)
         IN [impl |-> [dropped EXCEPT !.cache = MapRemove(dropped.cache, key)], ret |-> TRUE]
    ELSE [impl |-> impl, ret |-> FALSE]

Clear(impl) ==
    [impl EXCEPT !.cache = EmptyMap, !.lru_list = <<>>, !.lru_map = {},
                 !.current_size_bytes = 0]

ResetStats(impl) == [impl EXCEPT !.hits = 0, !.misses = 0, !.evictions = 0]

SetMaxSize(impl, max) == EvictLRU([impl EXCEPT !.max_size_bytes = max])

SetTTL(impl, ttl) == [impl EXCEPT !.ttl_seconds = ttl]

RECURSIVE CleanExpiredLoop(_, _, _)
CleanExpiredLoop(impl, todo, t) ==
    IF todo = {} THEN impl
    ELSE LET key == CHOOSE k \in todo : TRUE
             next == IF IsExpired(impl, impl.cache[key], t)
                     THEN LET dropped == RemoveLRU([impl EXCEPT !.current_size_bytes =
                                               impl.current_size_bytes - impl.cache[key].memory_size], key)
                          IN [dropped EXCEPT !.cache = MapRemove(dropped.cache, key)]
                     ELSE impl
         IN CleanExpiredLoop(next, todo \ {key}, t)

CleanExpired(impl, t) ==
    IF impl.ttl_seconds <= 0 THEN [impl |-> impl, ret |-> 0]
    ELSE LET cleaned == CleanExpiredLoop(impl, DOMAIN impl.cache, t)
         IN [impl |-> cleaned,
             ret |-> Cardinality(DOMAIN impl.cache) - Cardinality(DOMAIN cleaned.cache)]

\* ------------------------------------------------------------------------
\* State
\* ------------------------------------------------------------------------
VARIABLES
    cache_manager,   \* CacheManager::Impl of the result cache
    now,             \* steady_clock, in seconds
    use_order,       \* history: cached keys by last successful Get/Put, newest first
    last_call,       \* history: the cache call that produced this state
    engine,          \* TTSEngine::Impl: flags, counters, request_queue
    thread_pool,     \* ThreadPool: tasks, stop, working
    session_manager, \* SessionManager statistics
    threads,         \* position of every thread that can run ProcessSynthesis
    requests,        \* history: every request issued, with its handle
    teardown,        \* position of the thread destroying the engine
    crashed          \* the process died of undefined behaviour

cacheVars == <<cache_manager, now, use_order, last_call>>

engineVars == <<engine, thread_pool, session_manager, threads, requests, teardown, crashed>>

\* The engine's state without the fields of TTSEngine::Impl itself.
engineRest == <<thread_pool, session_manager, threads, requests, teardown, crashed>>

\* The components TTSEngine::Impl owns, used on their own by the
\* specifications of the voice registry, the vocabulary and the tokenizer:
\* VoiceManager::Impl (voices, default_voice_id), the tokenizer's
\* VocabManager::Impl (token_to_id, id_to_token, next_id, is_loaded) and
\* IPATokenizer::Impl (is_initialized, unk_id).
voice_manager == engine.voice_manager

vocab_manager == engine.vocab_manager

tokenizer == engine.tokenizer

vars == <<cache_manager, now, use_order, last_call,
          engine, thread_pool, session_manager, threads, requests, teardown, crashed>>

\* ------------------------------------------------------------------------
\* Specification of the result cache alone: any sequence of public calls
\* ------------------------------------------------------------------------
CacheResults == {[status |-> "OK", samples |-> n, cache_hit |-> FALSE] : n \in 0..MaxSamples}

NoCall == [op |-> "none", key |-> "", ret |-> Nullopt, found |-> FALSE, evicted |-> {}]

StatsBelowBound(impl) == impl.hits + impl.misses + impl.evictions <= MaxStat

Touched(order, key) == <<key>> \o SeqRemove(order, key)

Kept(order, impl) == SelectSeq(order, LAMBDA k : k \in DOMAIN impl.cache)

\* The threads, the pool and the request history are not used by the
\* specifications of the engine's components.
EngineRestIdle ==
    /\ thread_pool = [stop |-> FALSE]
    /\ session_manager = [total_inferences |-> 0]
    /\ threads = <<>>
    /\ requests = <<>>
    /\ teardown = [pc |-> "alive"]
    /\ crashed = FALSE

\* The engine variables are not used by the cache specification.
EngineIdle ==
    /\ engine = [initialized |-> FALSE]
    /\ thread_pool = [stop |-> FALSE]
    /\ session_manager = [total_inferences |-> 0]
    /\ threads = <<>>
    /\ requests = <<>>
    /\ teardown = [pc |-> "alive"]
    /\ crashed = FALSE

InitCache ==
    /\ cache_manager \in {NewCacheImpl(m) : m \in 0..MaxCacheBytes}
    /\ now = 0
    /\ use_order = <<>>
    /\ last_call = NoCall
    /\ EngineIdle

CallGet(key) ==
    LET r == Get(cache_manager, key, now) IN
    /\ StatsBelowBound(r.impl)
    /\ cache_manager' = r.impl
    /\ use_order' = IF r.ret.has_value THEN Touched(use_order, key)
                    ELSE Kept(use_order, r.impl)
    /\ last_call' = [NoCall EXCEPT !.op = "Get", !.key = key, !.ret = r.ret,
                                   !.found = (key \in DOMAIN cache_manager.cache)]
    /\ UNCHANGED <<now, engineVars>>

CallPut(key, result) ==
    LET after == Put(cache_manager, key, result, now)
        order == Touched(use_order, key) IN
    /\ StatsBelowBound(after)
    /\ cache_manager' = after
    /\ use_order' = Kept(order, after)
    /\ last_call' = [NoCall EXCEPT !.op = "Put", !.key = key,
                                   !.evicted = SeqToSet(order) \ DOMAIN after.cache]
    /\ UNCHANGED <<now, engineVars>>

CallRemove(key) ==
    LET r == Remove(cache_manager, key) IN
    /\ cache_manager' = r.impl
    /\ use_order' = Kept(use_order, r.impl)
    /\ last_call' = [NoCall EXCEPT !.op = "Remove"]
    /\ UNCHANGED <<now, engineVars>>

CallClear ==
    /\ cache_manager' = Clear(cache_manager)
    /\ use_order' = <<>>
    /\ last_call' = [NoCall EXCEPT !.op = "Clear"]
    /\ UNCHANGED <<now, engineVars>>

CallResetStats ==
    /\ cache_manager' = ResetStats(cache_manager)
    /\ last_call' = [NoCall EXCEPT !.op = "ResetStats"]
    /\ UNCHANGED <<now, use_order, engineVars>>

CallSetMaxSize(max) ==
    LET after == SetMaxSize(cache_manager, max) IN
    /\ StatsBelowBound(after)
    /\ cache_manager' = after
    /\ use_order' = Kept(use_order, after)
    /\ last_call' = [NoCall EXCEPT !.op = "SetMaxSize",
                                   !.evicted = SeqToSet(use_order) \ DOMAIN after.cache]
    /\ UNCHANGED <<now, engineVars>>

CallSetTTL(ttl) ==
    /\ cache_manager' = SetTTL(cache_manager, ttl)
    /\ last_call' = [NoCall EXCEPT !.op = "SetTTL"]
    /\ UNCHANGED <<now, use_order, engineVars>>

CallCleanExpired ==
    LET r == CleanExpired(cache_manager, now) IN
    /\ cache_manager' = r.impl
    /\ use_order' = Kept(use_order, r.impl)
    /\ last_call' = [NoCall EXCEPT !.op = "CleanExpired"]
    /\ UNCHANGED <<now, engineVars>>

Tick ==
    /\ now < MaxTime
    /\ now' = now + 1
    /\ last_call' = [NoCall EXCEPT !.op = "Tick"]
    /\ UNCHANGED <<cache_manager, use_order, engineVars>>

NextCache ==
    \/ \E key \in Keys : CallGet(key)
    \/ \E key \in Keys, result \in CacheResults : CallPut(key, result)
    \/ \E key \in Keys : CallRemove(key)
    \/ CallClear
    \/ CallResetStats
    \/ \E max \in 0..MaxCacheBytes : CallSetMaxSize(max)
    \/ \E ttl \in {0, MaxTTL} : CallSetTTL(ttl)
    \/ CallCleanExpired
    \/ Tick

SpecCache == InitCache /\ [][NextCache]_vars

\* ------------------------------------------------------------------------
\* TTSEngine: threads, requests and handles
\*   Callers run TTSEngine::Synthesize on their own thread; Workers are the
\*   ThreadPool threads that run SynthesizeAsync tasks; QueueProcessor is the
\*   std::thread running Impl::ProcessQueue.
\* ------------------------------------------------------------------------
Callers == {<<"caller", 1>>}

Workers == {<<"worker", i>> : i \in 1..NumWorkers}

QueueProcessor == <<"queue_processor", 0>>

Threads == Callers \cup Workers \cup {QueueProcessor}

LoadedVoices == {"voice1"}

\* The requests the clients issue: two texts, a request that opts out of the
\* cache, and a request for a voice that is not loaded.
\* speed, pitch and volume are floats, written here in thousandths (1000 is
\* 1.0f, the default); ipa_phonemes is the optional phoneme override.
TTSRequest(text, voice_id, use_cache) ==
    [text |-> text, voice_id |-> voice_id, speed |-> 1000, pitch |-> 1000,
     volume |-> 1000, ipa_phonemes |-> Nullopt, use_cache |-> use_cache]

TTSRequests ==
    { TTSRequest("text1", "voice1", TRUE),
      TTSRequest("text2", "voice1", TRUE),
      TTSRequest("text1", "voice1", FALSE),
      TTSRequest("text1", "nobody", TRUE) }

\* TTSResult as default-constructed: status OK, no samples, cache_hit false.
DefaultResult == [status |-> "OK", samples |-> 0, cache_hit |-> FALSE]

ErrorResult(status) == [DefaultResult EXCEPT !.status = status]

\* operator<< of a float on a stream with default flags (six significant
\* digits, no trailing zeros): 1000 is written "1", 1004 "1.004", 500 "0.5".
\* A text is written as integer part and fraction digits.
FormatDefault(x) ==
    LET d1 == (x \div 100) % 10
        d2 == (x \div 10) % 10
        d3 == x % 10
    IN <<x \div 1000,
         IF d3 # 0 THEN <<d1, d2, d3>>
         ELSE IF d2 # 0 THEN <<d1, d2>>
         ELSE IF d1 # 0 THEN <<d1>>
         ELSE <<>> >>

\* The key is the hash of text|voice_id|speed|pitch|volume; the phoneme
\* override is not written to the stream.  std::hash is taken to be
\* collision-free and the texts to hold no '|'.
GenerateCacheKey(request) ==
    <<request.text, request.voice_id, FormatDefault(request.speed),
      FormatDefault(request.pitch), FormatDefault(request.volume)>>

\* What RunInference can do: return samples, return an empty buffer (model
\* not loaded or Ort::Exception caught inside), or let a std::exception out.
InferenceOutcomes == {"samples", "empty", "throw"}

NewThread(pc) == [pc |-> pc, rid |-> 0, result |-> DefaultResult]

\* One entry of the history of requests: the request, the entry point that
\* took it (via), how often its handle was completed and with what, whether
\* it was rejected at the call, queued or started (stage), the requests
\* already completed with status OK when it was issued (preceded_by),
\* whether its cache key was in the table when it probed (probe_found),
\* what RunInference did for it (inference),
\* where CancelRequest found it (cancelled), and whether it was still
\* queued when the engine's destruction began (pending_at_destroy).
CompletedOK(reqs) ==
    {i \in 1..Len(reqs) : reqs[i].fulfilled > 0 /\ reqs[i].value.value.status = "OK"}

NewRequest(request, via, stage, reqs) ==
    [request |-> request, via |-> via, fulfilled |-> 0, value |-> Nullopt,
     stage |-> stage, preceded_by |-> CompletedOK(reqs), probe_found |-> FALSE,
     inference |-> "none",
     cancelled |-> "no", pending_at_destroy |-> FALSE]

Fulfil(reqs, rid, result) ==
    [reqs EXCEPT ![rid].fulfilled = @ + 1, ![rid].value = Some(result)]

Alive == teardown.pc = "alive" /\ ~crashed

InitEngine ==
    /\ cache_manager = NewCacheImpl(EngineCacheBytes)
    /\ now = 0
    /\ use_order = <<>>
    /\ last_call = NoCall
    /\ engine = [initialized |-> FALSE, total_requests |-> 0,
                 successful_requests |-> 0, failed_requests |-> 0,
                 active_synthesis_count |-> 0, request_queue |-> <<>>,
                 stop_processing |-> FALSE, latency_history |-> 0,
                 last_error |-> ""]
    /\ thread_pool = [tasks |-> <<>>, stop |-> FALSE, working |-> 0]
    /\ session_manager = [total_inferences |-> 0]
    /\ threads = [t \in Threads |->
                    IF t \in Callers THEN NewThread("idle")
                    ELSE IF t \in Workers THEN NewThread("wait")
                    ELSE NewThread("not_started")]
    /\ requests = <<>>
    /\ teardown = [pc |-> "alive", stats_destroyed |-> FALSE]
    /\ crashed = FALSE

\* TTSEngine::Impl::Initialize: on success the queue processor thread is
\* started and initialized is set; on failure only last_error changes.
Initialize(ok) ==
    /\ Alive
    /\ ~engine.initialized
    /\ engine.last_error = ""
    /\ IF ok
       THEN /\ engine' = [engine EXCEPT !.initialized = TRUE]
            /\ threads' = [threads EXCEPT ![QueueProcessor].pc = "wait"]
       ELSE /\ engine' = [engine EXCEPT !.last_error = "Failed to load Kokoro model"]
            /\ UNCHANGED threads
    /\ UNCHANGED <<cacheVars, thread_pool, session_manager, requests, teardown, crashed>>

\* Synthesize without its check of the initialized flag.
Synthesize_NoInitCheck(c, request) ==
    /\ Alive
    /\ threads[c].pc = "idle"
    /\ Len(requests) < MaxRequests
    /\ engine' = [engine EXCEPT !.total_requests = @ + 1]
    /\ requests' = Append(requests, NewRequest(request, "sync", "started", requests))
    /\ threads' = [threads EXCEPT ![c] = [pc |-> "process", rid |-> Len(requests) + 1,
                                          result |-> DefaultResult]]
    /\ UNCHANGED <<cacheVars, thread_pool, session_manager, teardown, crashed>>

\* TTSEngine::Synthesize up to the call of ProcessSynthesis.
Synthesize(c, request) ==
    /\ Alive
    /\ threads[c].pc = "idle"
    /\ Len(requests) < MaxRequests
    /\ IF ~engine.initialized
       THEN /\ requests' = Fulfil(Append(requests, NewRequest(request, "sync", "rejected", requests)),
                                  Len(requests) + 1, ErrorResult("ERROR_NOT_INITIALIZED"))
            /\ UNCHANGED <<engine, threads>>
       ELSE /\ engine' = [engine EXCEPT !.total_requests = @ + 1]
            /\ requests' = Append(requests, NewRequest(request, "sync", "started", requests))
            /\ threads' = [threads EXCEPT ![c] = [pc |-> "process", rid |-> Len(requests) + 1,
                                                  result |-> DefaultResult]]
    /\ UNCHANGED <<cacheVars, thread_pool, session_manager, teardown, crashed>>

\* TTSEngine::SynthesizeAsync: the promise is set at once on an engine that
\* is not initialized, otherwise the task is appended to ThreadPool::tasks.
SynthesizeAsync(request) ==
    /\ Alive
    /\ Len(requests) < MaxRequests
    /\ IF ~engine.initialized
       THEN /\ requests' = Fulfil(Append(requests, NewRequest(request, "async", "rejected", requests)),
                                  Len(requests) + 1, ErrorResult("ERROR_NOT_INITIALIZED"))
            /\ UNCHANGED thread_pool
       ELSE /\ ~thread_pool.stop
            /\ requests' = Append(requests, NewRequest(request, "async", "queued", requests))
            /\ thread_pool' = [thread_pool EXCEPT !.tasks = Append(@, Len(requests) + 1)]
    /\ UNCHANGED <<cacheVars, engine, session_manager, threads, teardown, crashed>>

\* ProcessSynthesis on a cache hit: the cached result, stamped as a hit.
CacheHitResult_Unstamped(cached) == cached

CacheHitResult(cached) == [cached EXCEPT !.cache_hit = TRUE]

\* ProcessSynthesis from its entry to the call of RunInference: the cache
\* probe, text normalisation, phonemisation, tokenisation and voice lookup.
\* A task of the pool first counts the request (total_requests++).
ProcessSynthesis_Begin(t) ==
    LET request == requests[threads[t].rid].request
        cache_key == GenerateCacheKey(request)
        probe == IF request.use_cache THEN Get(cache_manager, cache_key, now)
                 ELSE [impl |-> cache_manager, ret |-> Nullopt]
    IN
    /\ ~crashed
    /\ threads[t].pc = "process"
    /\ cache_manager' = probe.impl
    /\ engine' = IF t \in Workers THEN [engine EXCEPT !.total_requests = @ + 1] ELSE engine
    /\ threads' = [threads EXCEPT ![t] =
         IF probe.ret.has_value
         THEN [@ EXCEPT !.pc = "ret", !.result = CacheHitResult(probe.ret.value)]
         ELSE IF request.voice_id \notin LoadedVoices
         THEN [@ EXCEPT !.pc = "ret", !.result = ErrorResult("ERROR_INVALID_INPUT")]
         ELSE [@ EXCEPT !.pc = "inferring"]]
    /\ requests' = [requests EXCEPT ![threads[t].rid].probe_found =
                                       cache_key \in DOMAIN cache_manager.cache]
    /\ UNCHANGED <<now, use_order, last_call, thread_pool, session_manager,
                   teardown, crashed>>

\* ProcessSynthesis from the return of RunInference to its own return:
\* post-processing, cache insert, counters and the latency history.  The
\* latency history and its mutex are members destroyed before the pool is
\* joined: touching them after that is undefined, and the process either
\* goes on or dies.
ProcessSynthesis_Finish(t, outcome, survives) ==
    LET request == requests[threads[t].rid].request
        cache_key == GenerateCacheKey(request)
        samples == IF outcome = "samples" THEN 1 ELSE 0
        result == [threads[t].result EXCEPT !.samples = samples]
    IN
    /\ ~crashed
    /\ threads[t].pc = "inferring"
    /\ survives \/ teardown.stats_destroyed
    /\ crashed' = ~survives
    /\ session_manager' = IF outcome = "samples"
                          THEN [session_manager EXCEPT !.total_inferences = @ + 1]
                          ELSE session_manager
    /\ IF outcome = "throw"
       THEN /\ engine' = [engine EXCEPT !.failed_requests = @ + 1,
                                        !.latency_history = @ + 1]
            /\ threads' = [threads EXCEPT ![t].pc = "ret",
                                          ![t].result = ErrorResult("ERROR_INFERENCE_FAILED")]
            /\ UNCHANGED cache_manager
       ELSE /\ cache_manager' = IF request.use_cache
                                THEN Put(cache_manager, cache_key, result, now)
                                ELSE cache_manager
            /\ engine' = [engine EXCEPT !.successful_requests = @ + 1,
                                        !.latency_history = @ + 1]
            /\ threads' = [threads EXCEPT ![t].pc = "ret",
                                          ![t].result = [result EXCEPT !.status = "OK"]]
    /\ requests' = [requests EXCEPT ![threads[t].rid].inference = outcome]
    /\ UNCHANGED <<now, use_order, last_call, thread_pool, teardown>>

\* TTSEngine::Synthesize returns the result of ProcessSynthesis.
Synthesize_Return(c) ==
    /\ ~crashed
    /\ c \in Callers
    /\ threads[c].pc = "ret"
    /\ requests' = Fulfil(requests, threads[c].rid, threads[c].result)
    /\ threads' = [threads EXCEPT ![c] = NewThread("idle")]
    /\ UNCHANGED <<cacheVars, engine, thread_pool, session_manager, teardown, crashed>>

\* condition.notify_one wakes any one of the waiting workers.  They run the
\* same loop and hold no state while they wait, so which of them wakes
\* makes no difference to what follows: the one of lowest index is taken.
FirstWaiting(w) ==
    \A v \in Workers : threads[v].pc = "wait" => v[2] >= w[2]

\* A worker that takes the newest task instead of the oldest.
Worker_Dequeue_LIFO(w) ==
    LET n == Len(thread_pool.tasks) IN
    /\ ~crashed
    /\ threads[w].pc = "wait"
    /\ FirstWaiting(w)
    /\ thread_pool.stop \/ thread_pool.tasks # <<>>
    /\ IF thread_pool.stop /\ thread_pool.tasks = <<>>
       THEN /\ threads' = [threads EXCEPT ![w].pc = "exited"]
            /\ UNCHANGED <<thread_pool, requests>>
       ELSE /\ threads' = [threads EXCEPT ![w] = [pc |-> "process", rid |-> thread_pool.tasks[n],
                                                  result |-> DefaultResult]]
            /\ thread_pool' = [thread_pool EXCEPT !.tasks = SubSeq(@, 1, n - 1),
                                                  !.working = @ + 1]
            /\ requests' = [requests EXCEPT ![thread_pool.tasks[n]].stage = "started"]
    /\ UNCHANGED <<cacheVars, engine, session_manager, teardown, crashed>>

\* ThreadPool worker: wake up, leave when stopped and drained, otherwise
\* take the front task and count itself as working.
Worker_Dequeue(w) ==
    /\ ~crashed
    /\ threads[w].pc = "wait"
    /\ FirstWaiting(w)
    /\ thread_pool.stop \/ thread_pool.tasks # <<>>
    /\ IF thread_pool.stop /\ thread_pool.tasks = <<>>
       THEN /\ threads' = [threads EXCEPT ![w].pc = "exited"]
            /\ UNCHANGED <<thread_pool, requests>>
       ELSE /\ threads' = [threads EXCEPT ![w] = [pc |-> "process", rid |-> Head(thread_pool.tasks),
                                                  result |-> DefaultResult]]
            /\ thread_pool' = [thread_pool EXCEPT !.tasks = Tail(@), !.working = @ + 1]
            /\ requests' = [requests EXCEPT ![Head(thread_pool.tasks)].stage = "started"]
    /\ UNCHANGED <<cacheVars, engine, session_manager, teardown, crashed>>

\* ThreadPool worker: the task sets the promise and returns; working--.
Worker_Complete(w) ==
    /\ ~crashed
    /\ w \in Workers
    /\ threads[w].pc = "ret"
    /\ requests' = Fulfil(requests, threads[w].rid, threads[w].result)
    /\ thread_pool' = [thread_pool EXCEPT !.working = @ - 1]
    /\ threads' = [threads EXCEPT ![w] = NewThread("wait")]
    /\ UNCHANGED <<cacheVars, engine, session_manager, teardown, crashed>>

\* TTSEngine::SubmitRequest is declared in tts_engine.h and has no body in
\* the sources; it is modelled from the specification: an engine that is
\* not initialized answers ERROR_NOT_INITIALIZED, otherwise the request is
\* appended to request_queue and the queue condition is signalled.
SubmitRequest(request) ==
    /\ Alive
    /\ Len(requests) < MaxRequests
    /\ IF ~engine.initialized
       THEN /\ requests' = Fulfil(Append(requests, NewRequest(request, "submit", "rejected", requests)),
                                  Len(requests) + 1, ErrorResult("ERROR_NOT_INITIALIZED"))
            /\ UNCHANGED engine
       ELSE /\ requests' = Append(requests, NewRequest(request, "submit", "queued", requests))
            /\ engine' = [engine EXCEPT !.request_queue = Append(@, Len(requests) + 1)]
    /\ UNCHANGED <<cacheVars, thread_pool, session_manager, threads, teardown, crashed>>

\* TTSEngine::CancelRequest, modelled from the specification like
\* SubmitRequest: a request still in request_queue is removed and its
\* promise set to ERROR_CANCELLED; any other request is left alone.
\* cancelled records, for the properties, where the call found the request.
CancelRequest(rid) ==
    /\ Alive
    /\ rid \in 1..Len(requests)
    /\ requests[rid].via = "submit"
    /\ requests[rid].cancelled = "no"
    /\ IF rid \in SeqToSet(engine.request_queue)
       THEN /\ engine' = [engine EXCEPT !.request_queue = SeqRemove(@, rid)]
            /\ requests' = [Fulfil(requests, rid, ErrorResult("ERROR_CANCELLED"))
                              EXCEPT ![rid].cancelled = "queued"]
       ELSE /\ requests' = [requests EXCEPT ![rid].cancelled =
                               IF requests[rid].fulfilled > 0 THEN "done" ELSE "executing"]
            /\ UNCHANGED engine
    /\ UNCHANGED <<cacheVars, thread_pool, session_manager, threads, teardown, crashed>>

\* A queue processor that reads the front request and leaves it queued.
ProcessQueue_Dequeue_NoPop ==
    /\ ~crashed
    /\ threads[QueueProcessor].pc = "wait"
    /\ engine.request_queue # <<>> \/ engine.stop_processing
    /\ IF engine.stop_processing
       THEN /\ threads' = [threads EXCEPT ![QueueProcessor].pc = "exited"]
            /\ UNCHANGED <<engine, requests>>
       ELSE /\ threads' = [threads EXCEPT ![QueueProcessor] =
                             [pc |-> "process", rid |-> Head(engine.request_queue),
                              result |-> DefaultResult]]
            /\ engine' = [engine EXCEPT !.active_synthesis_count = @ + 1]
            /\ requests' = [requests EXCEPT ![Head(engine.request_queue)].stage = "started"]
    /\ UNCHANGED <<cacheVars, thread_pool, session_manager, teardown, crashed>>

\* Impl::ProcessQueue: wait for a request or the stop flag, leave on stop,
\* otherwise pop the front request and count it as active.
ProcessQueue_Dequeue ==
    /\ ~crashed
    /\ threads[QueueProcessor].pc = "wait"
    /\ engine.request_queue # <<>> \/ engine.stop_processing
    /\ IF engine.stop_processing
       THEN /\ threads' = [threads EXCEPT ![QueueProcessor].pc = "exited"]
            /\ UNCHANGED <<engine, requests>>
       ELSE /\ threads' = [threads EXCEPT ![QueueProcessor] =
                             [pc |-> "process", rid |-> Head(engine.request_queue),
                              result |-> DefaultResult]]
            /\ engine' = [engine EXCEPT !.request_queue = Tail(@),
                                        !.active_synthesis_count = @ + 1]
            /\ requests' = [requests EXCEPT ![Head(engine.request_queue)].stage = "started"]
    /\ UNCHANGED <<cacheVars, thread_pool, session_manager, teardown, crashed>>

\* Impl::ProcessQueue after ProcessSynthesis: active count down, promise set.
ProcessQueue_Complete ==
    /\ ~crashed
    /\ threads[QueueProcessor].pc = "ret"
    /\ engine' = [engine EXCEPT !.active_synthesis_count = @ - 1]
    /\ requests' = Fulfil(requests, threads[QueueProcessor].rid, threads[QueueProcessor].result)
    /\ threads' = [threads EXCEPT ![QueueProcessor] = NewThread("wait")]
    /\ UNCHANGED <<cacheVars, thread_pool, session_manager, teardown, crashed>>

\* TTSEngine::GetQueueSize and TTSEngine::GetActiveSynthesisCount
GetQueueSize == Len(engine.request_queue)

GetActiveSynthesisCount == engine.active_synthesis_count

\* TTSEngine::ClearCache
ClearCache ==
    /\ Alive
    /\ cache_manager.cache # EmptyMap
    /\ cache_manager' = Clear(cache_manager)
    /\ UNCHANGED <<now, use_order, last_call, engineVars>>

\* ~TTSEngine, first part: Impl::~Impl sets stop_processing and wakes the
\* queue processor.  No caller is inside Synthesize when the engine is
\* destroyed.  pending_at_destroy records the requests still queued.
Destroy_Begin ==
    /\ Alive
    /\ \A c \in Callers : threads[c].pc = "idle"
    /\ engine' = [engine EXCEPT !.stop_processing = TRUE]
    /\ teardown' = [teardown EXCEPT !.pc = "join_queue_processor"]
    /\ requests' = [i \in 1..Len(requests) |->
                      [requests[i] EXCEPT !.pending_at_destroy =
                          i \in SeqToSet(engine.request_queue) \cup SeqToSet(thread_pool.tasks)]]
    /\ UNCHANGED <<cacheVars, thread_pool, session_manager, threads, crashed>>

\* ~TTSEngine, second part: the queue processor is joined, then the members
\* declared after thread_pool are destroyed (latency_history, stats_mutex,
\* request_queue with its promises), then ~ThreadPool sets stop.
Destroy_Members ==
    /\ ~crashed
    /\ teardown.pc = "join_queue_processor"
    /\ threads[QueueProcessor].pc \in {"not_started", "exited"}
    /\ engine' = [engine EXCEPT !.request_queue = <<>>]
    /\ thread_pool' = [thread_pool EXCEPT !.stop = TRUE]
    /\ teardown' = [pc |-> "join_workers", stats_destroyed |-> TRUE]
    /\ UNCHANGED <<cacheVars, session_manager, threads, requests, crashed>>

\* ~TTSEngine, last part: ~ThreadPool has joined every worker.
Destroy_Finish ==
    /\ ~crashed
    /\ teardown.pc = "join_workers"
    /\ \A w \in Workers : threads[w].pc = "exited"
    /\ teardown' = [teardown EXCEPT !.pc = "destroyed"]
    /\ UNCHANGED <<cacheVars, engine, thread_pool, session_manager, threads, requests, crashed>>

\* The engine used through Synthesize and SynthesizeAsync.
NextEngine ==
    \/ \E ok \in BOOLEAN : Initialize(ok)
    \/ \E c \in Callers, request \in TTSRequests : Synthesize(c, request)
    \/ \E request \in TTSRequests : SynthesizeAsync(request)
    \/ \E t \in Threads : ProcessSynthesis_Begin(t)
    \/ \E t \in Threads, outcome \in InferenceOutcomes, survives \in BOOLEAN :
          ProcessSynthesis_Finish(t, outcome, survives)
    \/ \E c \in Callers : Synthesize_Return(c)
    \/ \E w \in Workers : Worker_Dequeue(w)
    \/ \E w \in Workers : Worker_Complete(w)
    \/ ProcessQueue_Dequeue
    \/ ClearCache
    \/ Destroy_Begin
    \/ Destroy_Members
    \/ Destroy_Finish

SpecEngine == InitEngine /\ [][NextEngine]_vars

\* The engine used through SubmitRequest and CancelRequest.
NextQueue ==
    \/ \E ok \in BOOLEAN : Initialize(ok)
    \/ \E request \in TTSRequests : SubmitRequest(request)
    \/ \E rid \in 1..MaxRequests : CancelRequest(rid)
    \/ ProcessSynthesis_Begin(QueueProcessor)
    \/ \E outcome \in InferenceOutcomes : ProcessSynthesis_Finish(QueueProcessor, outcome, TRUE)
    \/ ProcessQueue_Dequeue
    \/ ProcessQueue_Complete
    \/ \E w \in Workers : Worker_Dequeue(w)
    \/ Destroy_Begin
    \/ Destroy_Members
    \/ Destroy_Finish

SpecQueue == InitEngine /\ [][NextQueue]_vars

\* ------------------------------------------------------------------------
\* Specification of the cache key: GenerateCacheKey applied to two requests
\* ------------------------------------------------------------------------
KeyRequests ==
    { [text |-> t, voice_id |-> "voice1", speed |-> s, pitch |-> 1000,
       volume |-> v, ipa_phonemes |-> p, use_cache |-> TRUE] :
         t \in {"text1", "text2"}, s \in {1000, 1004, 1500}, v \in {1000, 500},
         p \in {Nullopt, Some("k o")} }

InitKey ==
    /\ cache_manager = NewCacheImpl(EngineCacheBytes)
    /\ now = 0
    /\ use_order = <<>>
    /\ last_call = NoCall
    /\ EngineIdle

CallGenerateCacheKey(a, b) ==
    /\ last_call' = [op |-> "GenerateCacheKey", a |-> a, b |-> b,
                     key_a |-> GenerateCacheKey(a), key_b |-> GenerateCacheKey(b)]
    /\ UNCHANGED <<cache_manager, now, use_order, engineVars>>

NextKey == \E a, b \in KeyRequests : CallGenerateCacheKey(a, b)

SpecKey == InitKey /\ [][NextKey]_vars

\* ------------------------------------------------------------------------
\* Specification of the audio post-processing: ProcessAudio on one buffer
\* ------------------------------------------------------------------------
\* Samples are floats, written here in hundredths (100 is 1.0f); the volume
\* is in thousandths like the request's.  Products and quotients are cut
\* towards zero.
Abs(x) == IF x < 0 THEN -x ELSE x

TruncDiv(x, y) == IF x < 0 THEN -((-x) \div y) ELSE x \div y

RECURSIVE Peak(_)
Peak(samples) ==
    IF samples = <<>> THEN 0
    ELSE LET rest == Peak(Tail(samples)) IN
         IF Abs(Head(samples)) > rest THEN Abs(Head(samples)) ELSE rest

ApplyVolume(samples, volume) ==
    [i \in 1..Len(samples) |-> TruncDiv(samples[i] * volume, 1000)]

Normalize(samples) ==
    IF samples = <<>> \/ Peak(samples) = 0 THEN samples
    ELSE [i \in 1..Len(samples) |-> TruncDiv(samples[i] * 95, Peak(samples))]

ProcessAudio(samples, volume, normalize) ==
    LET scaled == IF volume # 1000 THEN ApplyVolume(samples, volume) ELSE samples
    IN IF normalize THEN Normalize(scaled) ELSE scaled

\* What the model can put out: silence, samples inside the range and
\* samples beyond it.
ModelSamples == {-150, -80, 0, 80, 150}

AudioBuffers == UNION {[1..n -> ModelSamples] : n \in 0..MaxAudioLen}

Volumes == {500, 1000, 2000}

InitAudio ==
    /\ cache_manager = NewCacheImpl(EngineCacheBytes)
    /\ now = 0
    /\ use_order = <<>>
    /\ last_call = NoCall
    /\ EngineIdle

CallProcessAudio(samples, volume, normalize) ==
    /\ last_call' = [op |-> "ProcessAudio", samples |-> samples, volume |-> volume,
                     normalize |-> normalize,
                     ret |-> ProcessAudio(samples, volume, normalize)]
    /\ UNCHANGED <<cache_manager, now, use_order, engineVars>>

NextAudio ==
    \E samples \in AudioBuffers, volume \in Volumes, normalize \in BOOLEAN :
        CallProcessAudio(samples, volume, normalize)

SpecAudio == InitAudio /\ [][NextAudio]_vars

\* ------------------------------------------------------------------------
\* Specification of the voice registry: any sequence of public calls
\* ------------------------------------------------------------------------
\* VoiceManager::Impl.  voices is the set of ids in the map (the Voice
\* records play no part in the choice of the default).
NewVoiceManagerImpl == [voices |-> {}, default_voice_id |-> ""]

\* The ids a voice file can carry; the empty string is one of them.
VoiceIds == {"", "voice1", "voice2"}

\* A load that names every voice the default.
LoadVoiceFromJSON_AlwaysDefault(impl, voice_id, valid) ==
    IF ~valid THEN impl
    ELSE [voices |-> impl.voices \cup {voice_id}, default_voice_id |-> voice_id]

\* valid is false when the JSON does not parse: nothing is added then.
LoadVoiceFromJSON(impl, voice_id, valid) ==
    IF ~valid THEN impl
    ELSE LET voices == impl.voices \cup {voice_id} IN
         [voices |-> voices,
          default_voice_id |->
              IF Cardinality(voices) = 1 \/ impl.default_voice_id = ""
              THEN voice_id ELSE impl.default_voice_id]

SetDefaultVoice(impl, voice_id) ==
    IF voice_id \in impl.voices
    THEN [impl EXCEPT !.default_voice_id = voice_id]
    ELSE impl

\* begin is the id voices.begin() yields after the erase: the order of an
\* unordered_map is not specified, so it is any remaining id.
UnloadVoice(impl, voice_id, begin) ==
    IF voice_id \notin impl.voices THEN impl
    ELSE LET voices == impl.voices \ {voice_id} IN
         [voices |-> voices,
          default_voice_id |->
              IF impl.default_voice_id = voice_id
              THEN (IF voices # {} THEN begin ELSE "")
              ELSE impl.default_voice_id]

ClearVoices(impl) == [voices |-> {}, default_voice_id |-> ""]

InitVoice ==
    /\ cache_manager = NewCacheImpl(EngineCacheBytes)
    /\ now = 0
    /\ use_order = <<>>
    /\ last_call = NoCall
    /\ engine = [initialized |-> FALSE, voice_manager |-> NewVoiceManagerImpl]
    /\ EngineRestIdle

CallLoadVoice(voice_id, valid) ==
    /\ engine' = [engine EXCEPT !.voice_manager = LoadVoiceFromJSON(voice_manager, voice_id, valid)]
    /\ last_call' = [op |-> "LoadVoice", voice_id |-> voice_id, ok |-> valid]
    /\ UNCHANGED <<cache_manager, now, use_order, engineRest>>

CallSetDefaultVoice(voice_id) ==
    /\ engine' = [engine EXCEPT !.voice_manager = SetDefaultVoice(voice_manager, voice_id)]
    /\ last_call' = [op |-> "SetDefaultVoice", voice_id |-> voice_id,
                     ok |-> voice_id \in voice_manager.voices]
    /\ UNCHANGED <<cache_manager, now, use_order, engineRest>>

CallUnloadVoice(voice_id) ==
    /\ \E begin \in IF voice_manager.voices \ {voice_id} = {} THEN {""}
                    ELSE voice_manager.voices \ {voice_id} :
          engine' = [engine EXCEPT !.voice_manager = UnloadVoice(voice_manager, voice_id, begin)]
    /\ last_call' = [op |-> "UnloadVoice", voice_id |-> voice_id,
                     ok |-> voice_id \in voice_manager.voices]
    /\ UNCHANGED <<cache_manager, now, use_order, engineRest>>

CallClearVoices ==
    /\ engine' = [engine EXCEPT !.voice_manager = ClearVoices(voice_manager)]
    /\ last_call' = [op |-> "ClearVoices", voice_id |-> "", ok |-> TRUE]
    /\ UNCHANGED <<cache_manager, now, use_order, engineRest>>

NextVoice ==
    \/ \E voice_id \in VoiceIds, valid \in BOOLEAN : CallLoadVoice(voice_id, valid)
    \/ \E voice_id \in VoiceIds : CallSetDefaultVoice(voice_id)
    \/ \E voice_id \in VoiceIds : CallUnloadVoice(voice_id)
    \/ CallClearVoices

SpecVoice == InitVoice /\ [][NextVoice]_vars

\* ------------------------------------------------------------------------
\* Specification of the vocabulary: any sequence of loads and additions
\* ------------------------------------------------------------------------
NewVocabImpl == [token_to_id |-> EmptyMap, id_to_token |-> EmptyMap,
                 next_id |-> 0, is_loaded |-> FALSE]

Max(a, b) == IF a > b THEN a ELSE b

\* token_to_id[token] = id; id_to_token[id] = token;
InsertToken(impl, token, id) ==
    [impl EXCEPT !.token_to_id = MapPut(@, token, id),
                 !.id_to_token = MapPut(@, id, token)]

\* The loop of LoadFromJSON over the items of an object.
RECURSIVE LoadObjectItems(_, _)
LoadObjectItems(impl, items) ==
    IF items = <<>> THEN impl
    ELSE LET item == Head(items)
             after == [InsertToken(impl, item.token, item.id)
                         EXCEPT !.next_id = Max(@, item.id + 1)]
         IN LoadObjectItems(after, Tail(items))

\* The loop of LoadFromJSON over the elements of an array; id is the local
\* counter.  The result is the implementation and the counter.
RECURSIVE LoadArrayItems(_, _, _)
LoadArrayItems(impl, items, id) ==
    IF items = <<>> THEN [impl |-> impl, id |-> id]
    ELSE LoadArrayItems(InsertToken(impl, Head(items), id), Tail(items), id + 1)

\* LoadFromJSON on a parsed document j: an object of token : id items, an
\* array of tokens, any other value, or (kind "unparsable") a text the
\* parser rejects before anything is cleared.
LoadFromJSON(impl, j) ==
    IF j.kind = "unparsable" THEN impl
    ELSE IF j.kind = "object"
    THEN [LoadObjectItems(NewVocabImpl, j.items) EXCEPT !.is_loaded = TRUE]
    ELSE IF j.kind = "array"
    THEN LET r == LoadArrayItems(NewVocabImpl, j.items, 0) IN
         [r.impl EXCEPT !.next_id = r.id, !.is_loaded = TRUE]
    ELSE NewVocabImpl

\* The loop of LoadFromText over the lines: a line is a token with an id
\* (token<separator>id) or a token alone, which takes the local counter.
RECURSIVE LoadTextLines(_, _, _)
LoadTextLines(impl, lines, id) ==
    IF lines = <<>> THEN [impl |-> impl, id |-> id]
    ELSE LET line == Head(lines) IN
         IF line.id.has_value
         THEN LoadTextLines([InsertToken(impl, line.token, line.id.value)
                               EXCEPT !.next_id = Max(@, line.id.value + 1)],
                            Tail(lines), id)
         ELSE LoadTextLines(InsertToken(impl, line.token, id), Tail(lines), id + 1)

LoadFromText(impl, lines) ==
    LET r == LoadTextLines(NewVocabImpl, lines, 0)
        after == IF r.id > 0 THEN [r.impl EXCEPT !.next_id = r.id] ELSE r.impl
    IN [after EXCEPT !.is_loaded = (after.token_to_id # EmptyMap)]

\* VocabManager::AddToken(token)
AddToken(impl, token) ==
    IF token \in DOMAIN impl.token_to_id THEN impl
    ELSE [InsertToken(impl, token, impl.next_id) EXCEPT !.next_id = @ + 1]

\* VocabManager::AddToken(token, id)
AddTokenWithId(impl, token, id) ==
    [InsertToken(impl, token, id) EXCEPT !.next_id = Max(@, id + 1)]

GetTokenId(impl, token) ==
    IF token \in DOMAIN impl.token_to_id THEN impl.token_to_id[token] ELSE -1

GetToken(impl, id) ==
    IF id \in DOMAIN impl.id_to_token THEN impl.id_to_token[id] ELSE ""

\* The symbols and the files of the model.
Symbols == {"a", "k", "N"}

Ids == 0..MaxId

SeqsUpTo(S, n) == UNION {[1..m -> S] : m \in 0..n}

DistinctTokens(items) ==
    \A i, k \in 1..Len(items) : i # k => items[i].token # items[k].token

\* JSON documents: objects (one item per key), arrays, and documents that
\* are neither or do not parse.
JSONObjects ==
    {[kind |-> "object", items |-> items] :
        items \in {x \in SeqsUpTo([token : Symbols, id : Ids], MaxLines) : DistinctTokens(x)}}

JSONArrays == {[kind |-> "array", items |-> items] : items \in SeqsUpTo(Symbols, MaxLines)}

JSONOthers == {[kind |-> "other", items |-> <<>>], [kind |-> "unparsable", items |-> <<>>]}

TextLines == [token : Symbols, id : {Nullopt} \cup {Some(n) : n \in Ids}]

TextFiles == SeqsUpTo(TextLines, MaxLines)

InitVocab ==
    /\ cache_manager = NewCacheImpl(EngineCacheBytes)
    /\ now = 0
    /\ use_order = <<>>
    /\ last_call = NoCall
    /\ engine = [initialized |-> FALSE, vocab_manager |-> NewVocabImpl]
    /\ EngineRestIdle

CallLoadFromJSON(j) ==
    /\ engine' = [engine EXCEPT !.vocab_manager = LoadFromJSON(vocab_manager, j)]
    /\ last_call' = [op |-> "LoadFromJSON", token |-> ""]
    /\ UNCHANGED <<cache_manager, now, use_order, engineRest>>

CallLoadFromText(lines) ==
    /\ engine' = [engine EXCEPT !.vocab_manager = LoadFromText(vocab_manager, lines)]
    /\ last_call' = [op |-> "LoadFromText", token |-> ""]
    /\ UNCHANGED <<cache_manager, now, use_order, engineRest>>

CallAddToken(token) ==
    /\ vocab_manager.next_id <= MaxId + 1
    /\ engine' = [engine EXCEPT !.vocab_manager = AddToken(vocab_manager, token)]
    /\ last_call' = [op |-> "AddToken", token |-> token]
    /\ UNCHANGED <<cache_manager, now, use_order, engineRest>>

CallAddTokenWithId(token, id) ==
    /\ engine' = [engine EXCEPT !.vocab_manager = AddTokenWithId(vocab_manager, token, id)]
    /\ last_call' = [op |-> "AddTokenWithId", token |-> token]
    /\ UNCHANGED <<cache_manager, now, use_order, engineRest>>

NextVocab ==
    \/ \E j \in JSONObjects : CallLoadFromJSON(j)
    \/ \E j \in JSONArrays : CallLoadFromJSON(j)
    \/ \E j \in JSONOthers : CallLoadFromJSON(j)
    \/ \E lines \in TextFiles : CallLoadFromText(lines)
    \/ \E token \in Symbols : CallAddToken(token)
    \/ \E token \in Symbols, id \in Ids : CallAddTokenWithId(token, id)

SpecVocab == InitVocab /\ [][NextVocab]_vars

\* ------------------------------------------------------------------------
\* Specification of the tokenizer: Initialize and Tokenize
\* ------------------------------------------------------------------------
\* IPATokenizer::Impl; of the special token ids only unk_id is used by
\* Tokenize.  Its vocabulary is the variable vocab_manager.
NewTokenizerImpl == [is_initialized |-> FALSE, unk_id |-> 1]

\* The symbols a vocabulary file of this specification can hold, and the
\* pieces of a phoneme string: a symbol or a run of white space.
VocabSymbols == {"a", "N", "n", "<unk>"}

PhonemePieces == VocabSymbols \cup {"xyz", " "}

\* A phoneme string, as its pieces; two symbols are never adjacent.
PhonemeStrings ==
    {p \in SeqsUpTo(PhonemePieces, MaxLines + 1) :
        \A i \in 1..(Len(p) - 1) : p[i] = " " \/ p[i + 1] = " "}

\* Impl::SplitPhonemes: the white-space separated words of the string.
SplitPhonemes(phonemes) == SelectSeq(phonemes, LAMBDA piece : piece # " ")

\* ::tolower on the letters of a symbol.
ToLower(symbol) == IF symbol = "N" THEN "n" ELSE symbol

\* Impl::NormalizePhoneme: lower case, then Trim (a word holds no space).
NormalizePhoneme(phoneme) == ToLower(phoneme)

\* IPATokenizer::Initialize on a vocabulary file that is a JSON document:
\* nothing but the vocabulary changes when the load fails.
TokenizerInitialize(tok, vocab, j) ==
    LET loaded == LoadFromJSON(vocab, j)
        ok == j.kind \in {"object", "array"}
        unk == GetTokenId(loaded, "<unk>")
    IN [vocab |-> loaded,
        tok |-> IF ok THEN [is_initialized |-> TRUE,
                            unk_id |-> IF unk = -1 THEN 1 ELSE unk]
                ELSE tok]

\* IPATokenizer::Tokenize
Tokenize(tok, vocab, phonemes) ==
    IF ~tok.is_initialized THEN <<>>
    ELSE LET phoneme_list == SplitPhonemes(phonemes) IN
         [i \in 1..Len(phoneme_list) |->
            LET token_id == GetTokenId(vocab, NormalizePhoneme(phoneme_list[i])) IN
            IF token_id = -1 THEN tok.unk_id ELSE token_id]

TokenizerVocabularies ==
    {[kind |-> "object", items |-> items] :
        items \in {x \in SeqsUpTo([token : VocabSymbols, id : Ids], MaxLines) :
                      DistinctTokens(x)}}

InitTokenizer ==
    /\ cache_manager = NewCacheImpl(EngineCacheBytes)
    /\ now = 0
    /\ use_order = <<>>
    /\ last_call = NoCall
    /\ engine = [initialized |-> FALSE, tokenizer |-> NewTokenizerImpl,
                  vocab_manager |-> NewVocabImpl]
    /\ EngineRestIdle

CallTokenizerInitialize(j) ==
    LET r == TokenizerInitialize(tokenizer, vocab_manager, j) IN
    /\ engine' = [engine EXCEPT !.vocab_manager = r.vocab, !.tokenizer = r.tok]
    /\ last_call' = [op |-> "Initialize", phonemes |-> <<>>, ret |-> <<>>]
    /\ UNCHANGED <<cache_manager, now, use_order, engineRest>>

CallTokenize(phonemes) ==
    /\ last_call' = [op |-> "Tokenize", phonemes |-> phonemes,
                     ret |-> Tokenize(tokenizer, vocab_manager, phonemes)]
    /\ UNCHANGED <<cache_manager, now, use_order, engineVars>>

NextTokenizer ==
    \/ \E j \in TokenizerVocabularies : CallTokenizerInitialize(j)
    \/ \E j \in JSONOthers : CallTokenizerInitialize(j)
    \/ \E phonemes \in PhonemeStrings : CallTokenize(phonemes)

SpecTokenizer == InitTokenizer /\ [][NextTokenizer]_vars

\* ------------------------------------------------------------------------
\* Specification of the synthesis pipeline: ProcessSynthesis, one request
\* at a time, with the phonemizer and the tokenizer behind it
\* ------------------------------------------------------------------------
\* At most MaxWords morphemes are counted by the phonemizer, and at most
\* MaxRequests requests probe the cache.
MaxWords == 3

\* TTSEngine::Impl::phonemizer
phonemizer == engine.phonemizer

\* JapanesePhonemizer::Impl: MeCab and the two switches, and the statistics.
NewPhonemizerImpl(mecab, use_dictionary, use_onnx_fallback) ==
    [mecab |-> mecab, use_dictionary |-> use_dictionary,
     use_onnx_fallback |-> use_onnx_fallback,
     dictionary_hits |-> 0, onnx_fallbacks |-> 0, total_words |-> 0]

\* PhonemizeStats as GetStats reads it.
GetPhonemizeStats(impl) ==
    [dictionary_hits |-> impl.dictionary_hits, onnx_fallbacks |-> impl.onnx_fallbacks,
     total_words |-> impl.total_words]

\* MeCab's segmentation of the texts of the model: text1 is one morpheme,
\* text2 is two.  Without MeCab the whole text is one morpheme.
Morphemes(impl, text) ==
    IF impl.mecab
    THEN IF text = "text1" THEN <<"m1">> ELSE <<"m1", "m2">>
    ELSE <<text>>

\* The dictionary of the model holds the morpheme m1.
LookupWithReading(morpheme) ==
    IF morpheme = "m1" THEN Some(<<"a">>) ELSE Nullopt

\* Impl::ProcessMorpheme: count the word, then dictionary, neural model,
\* reading or romanisation, whichever answers first.
ProcessMorpheme(impl, morpheme) ==
    LET counted == [impl EXCEPT !.total_words = @ + 1]
        found == LookupWithReading(morpheme)
    IN IF impl.use_dictionary /\ found.has_value
       THEN [impl |-> [counted EXCEPT !.dictionary_hits = @ + 1], phonemes |-> found.value]
       ELSE IF impl.use_onnx_fallback
       THEN [impl |-> [counted EXCEPT !.onnx_fallbacks = @ + 1], phonemes |-> <<"n">>]
       ELSE [impl |-> counted, phonemes |-> <<"N">>]

\* StringUtils::Join with " " over the parts found so far.
JoinPhonemes(parts, more) ==
    IF parts = <<>> THEN more ELSE parts \o <<" ">> \o more

\* JapanesePhonemizer::TextToPhonemes: every morpheme of the text goes
\* through ProcessMorpheme.
RECURSIVE PhonemizeMorphemes(_, _, _)
PhonemizeMorphemes(impl, morphemes, parts) ==
    IF morphemes = <<>> THEN [impl |-> impl, phonemes |-> parts]
    ELSE LET r == ProcessMorpheme(impl, Head(morphemes)) IN
         PhonemizeMorphemes(r.impl, Tail(morphemes), JoinPhonemes(parts, r.phonemes))

TextToPhonemes(impl, text) ==
    IF ~(impl.mecab \/ impl.use_dictionary \/ impl.use_onnx_fallback)
    THEN [impl |-> impl, phonemes |-> <<>>]
    ELSE PhonemizeMorphemes(impl, Morphemes(impl, text), <<>>)

\* A ResolvePhonemes that runs the grapheme-to-phoneme conversion whether or
\* not the request brings its phonemes.
ResolvePhonemes_AlwaysG2P(impl, request) == TextToPhonemes(impl, request.text)

\* ProcessSynthesis, step 2: the phonemes the request brings, or else the
\* phonemes of its text.
ResolvePhonemes(impl, request) ==
    IF request.ipa_phonemes.has_value
    THEN [impl |-> impl, phonemes |-> request.ipa_phonemes.value]
    ELSE TextToPhonemes(impl, request.text)

\* Impl::ParsePhonemes: the white-space separated phonemes, in order.
ParsePhonemes(phonemes) == SplitPhonemes(phonemes)

\* The vocabulary the engine's tokenizer is initialised with.
PipelineVocabulary ==
    [kind |-> "object",
     items |-> <<[token |-> "a", id |-> 0], [token |-> "n", id |-> 2]>>]

\* The requests of this specification: with and without phonemes of their
\* own, with and without the cache.
PipelineRequests ==
    { [text |-> t, voice_id |-> "voice1", speed |-> 1000, pitch |-> 1000,
       volume |-> 1000, ipa_phonemes |-> p, use_cache |-> c] :
         t \in {"text1", "text2"}, p \in {Nullopt, Some(<<"n", " ", "a">>)},
         c \in BOOLEAN }

InitPipeline ==
    /\ cache_manager = NewCacheImpl(EngineCacheBytes)
    /\ now = 0
    /\ use_order = <<>>
    /\ last_call = NoCall
    /\ \E mecab, use_dictionary, use_onnx_fallback \in BOOLEAN :
         LET t == TokenizerInitialize(NewTokenizerImpl, NewVocabImpl, PipelineVocabulary) IN
         /\ mecab \/ use_dictionary \/ use_onnx_fallback
         /\ engine = [initialized |-> TRUE,
                      phonemizer |-> NewPhonemizerImpl(mecab, use_dictionary, use_onnx_fallback),
                      tokenizer |-> t.tok, vocab_manager |-> t.vocab]
    /\ EngineRestIdle

\* ProcessSynthesis as one step of a single caller: cache probe, phonemes,
\* tokens, inference, cache insert.  The text stands for its normalised
\* form.  last_call keeps the request, the result, the tokens handed to
\* RunInference (if it got that far) and the phonemizer statistics read
\* before the call.
CallProcessSynthesis(request, outcome) ==
    LET cache_key == GenerateCacheKey(request)
        probe == IF request.use_cache THEN Get(cache_manager, cache_key, now)
                 ELSE [impl |-> cache_manager, ret |-> Nullopt]
        resolved == ResolvePhonemes(phonemizer, request)
        tokens == Tokenize(tokenizer, vocab_manager, resolved.phonemes)
        result == [status |-> IF outcome = "throw" THEN "ERROR_INFERENCE_FAILED" ELSE "OK",
                   samples |-> IF outcome = "samples" THEN 1 ELSE 0,
                   cache_hit |-> FALSE,
                   phonemes |-> ParsePhonemes(resolved.phonemes)]
        before == GetPhonemizeStats(phonemizer)
    IN
    /\ phonemizer.total_words + Len(Morphemes(phonemizer, request.text)) <= MaxWords
    /\ request.use_cache => cache_manager.hits + cache_manager.misses < MaxRequests
    /\ IF probe.ret.has_value
       THEN /\ cache_manager' = probe.impl
            /\ UNCHANGED engine
            /\ last_call' = [op |-> "ProcessSynthesis", request |-> request,
                             result |-> CacheHitResult(probe.ret.value),
                             tokens |-> Nullopt, before |-> before]
       ELSE /\ cache_manager' = IF request.use_cache /\ outcome # "throw"
                                THEN Put(probe.impl, cache_key, result, now)
                                ELSE probe.impl
            /\ engine' = [engine EXCEPT !.phonemizer = resolved.impl]
            /\ last_call' = [op |-> "ProcessSynthesis", request |-> request,
                             result |-> result, tokens |-> Some(tokens),
                             before |-> before]
    /\ UNCHANGED <<now, use_order, engineRest>>

NextPipeline ==
    \E request \in PipelineRequests, outcome \in InferenceOutcomes :
        CallProcessSynthesis(request, outcome)

SpecPipeline == InitPipeline /\ [][NextPipeline]_vars

\* ------------------------------------------------------------------------
\* Specification of the thread pool on its own: workers, enqueue, wait_all
\* and the destructor, with the two condition variables
\* ------------------------------------------------------------------------
\* The thread calling enqueue, the thread calling wait_all.  The owner of
\* the pool runs the destructor; its position is teardown.pc.
Producer == <<"producer", 0>>

Waiter == <<"waiter", 0>>

PoolThreads == Workers \cup {Producer, Waiter}

\* A condition variable is the set of the threads blocked in its wait.
\* notify_all releases them all: each goes on to take the mutex and to
\* evaluate its predicate again.
NotifyAll(thrs, waiting) ==
    [t \in DOMAIN thrs |-> IF t \in waiting THEN [thrs[t] EXCEPT !.pc = "check"]
                           ELSE thrs[t]]

\* A worker that leaves as soon as stop is set, whatever is still queued.
Pool_WorkerCheck_ExitOnStop(w) ==
    /\ w \in Workers
    /\ threads[w].pc = "check"
    /\ IF thread_pool.stop
       THEN /\ threads' = [threads EXCEPT ![w].pc = "exited"]
            /\ UNCHANGED thread_pool
       ELSE IF thread_pool.tasks # <<>>
       THEN /\ threads' = [threads EXCEPT ![w] = [pc |-> "run", task |-> Head(thread_pool.tasks)]]
            /\ thread_pool' = [thread_pool EXCEPT !.tasks = Tail(@), !.working = @ + 1]
       ELSE /\ threads' = [threads EXCEPT ![w].pc = "blocked"]
            /\ thread_pool' = [thread_pool EXCEPT !.condition = @ \cup {w}]
    /\ UNCHANGED <<cacheVars, engine, session_manager, requests, teardown, crashed>>

\* Worker loop, under queue_mutex: condition.wait evaluates its predicate
\* and blocks when it is false; otherwise the worker leaves (stopped and
\* drained) or takes the front task and counts itself as working.
Pool_WorkerCheck(w) ==
    /\ w \in Workers
    /\ threads[w].pc = "check"
    /\ IF thread_pool.stop \/ thread_pool.tasks # <<>>
       THEN IF thread_pool.stop /\ thread_pool.tasks = <<>>
            THEN /\ threads' = [threads EXCEPT ![w].pc = "exited"]
                 /\ UNCHANGED thread_pool
            ELSE /\ threads' = [threads EXCEPT ![w] = [pc |-> "run", task |-> Head(thread_pool.tasks)]]
                 /\ thread_pool' = [thread_pool EXCEPT !.tasks = Tail(@), !.working = @ + 1]
       ELSE /\ threads' = [threads EXCEPT ![w].pc = "blocked"]
            /\ thread_pool' = [thread_pool EXCEPT !.condition = @ \cup {w}]
    /\ UNCHANGED <<cacheVars, engine, session_manager, requests, teardown, crashed>>

\* Worker loop, outside the mutex: task().  The task terminates.
Pool_WorkerRun(w) ==
    /\ w \in Workers
    /\ threads[w].pc = "run"
    /\ requests' = [requests EXCEPT ![threads[w].task].executed = @ + 1]
    /\ threads' = [threads EXCEPT ![w].pc = "finish"]
    /\ UNCHANGED <<cacheVars, engine, thread_pool, session_manager, teardown, crashed>>

\* A worker that never signals finished.
Pool_WorkerFinish_NoNotify(w) ==
    /\ w \in Workers
    /\ threads[w].pc = "finish"
    /\ thread_pool' = [thread_pool EXCEPT !.working = @ - 1]
    /\ threads' = [threads EXCEPT ![w] = [pc |-> "check", task |-> 0]]
    /\ UNCHANGED <<cacheVars, engine, session_manager, requests, teardown, crashed>>

\* Worker loop, under queue_mutex again: working--, and finished.notify_all
\* when nothing is queued and nobody works.
Pool_WorkerFinish(w) ==
    LET idle == thread_pool.working = 1 /\ thread_pool.tasks = <<>> IN
    /\ w \in Workers
    /\ threads[w].pc = "finish"
    /\ thread_pool' = [thread_pool EXCEPT !.working = @ - 1,
                                          !.finished = IF idle THEN {} ELSE @]
    /\ threads' = [IF idle THEN NotifyAll(threads, thread_pool.finished) ELSE threads
                     EXCEPT ![w] = [pc |-> "check", task |-> 0]]
    /\ UNCHANGED <<cacheVars, engine, session_manager, requests, teardown, crashed>>

\* ThreadPool::enqueue, under queue_mutex: the task is queued.  The owner
\* does not destroy the pool while a call of enqueue or wait_all is under
\* way, so stop is false here.
Pool_Enqueue ==
    /\ teardown.pc = "alive"
    /\ threads[Producer].pc = "idle"
    /\ Len(requests) < MaxRequests
    /\ ~thread_pool.stop
    /\ requests' = Append(requests, [executed |-> 0, pending_at_destroy |-> FALSE])
    /\ thread_pool' = [thread_pool EXCEPT !.tasks = Append(@, Len(requests) + 1)]
    /\ threads' = [threads EXCEPT ![Producer].pc = "notify"]
    /\ UNCHANGED <<cacheVars, engine, session_manager, teardown, crashed>>

\* ThreadPool::enqueue, after the mutex is released: condition.notify_one
\* releases one of the blocked workers, if there is one.
Pool_EnqueueNotify ==
    /\ threads[Producer].pc = "notify"
    /\ IF thread_pool.condition = {}
       THEN /\ threads' = [threads EXCEPT ![Producer].pc = "idle"]
            /\ UNCHANGED thread_pool
       ELSE \E w \in thread_pool.condition :
              /\ threads' = [NotifyAll(threads, {w}) EXCEPT ![Producer].pc = "idle"]
              /\ thread_pool' = [thread_pool EXCEPT !.condition = @ \ {w}]
    /\ UNCHANGED <<cacheVars, engine, session_manager, requests, teardown, crashed>>

\* ThreadPool::wait_all is called.
Pool_WaitAll_Call ==
    /\ teardown.pc = "alive"
    /\ threads[Waiter].pc = "idle"
    /\ threads' = [threads EXCEPT ![Waiter].pc = "check"]
    /\ UNCHANGED <<cacheVars, engine, thread_pool, session_manager, requests, teardown, crashed>>

\* A wait_all whose predicate looks at the queue only.
Pool_WaitAll_Check_QueueOnly ==
    /\ threads[Waiter].pc = "check"
    /\ IF thread_pool.tasks = <<>>
       THEN /\ threads' = [threads EXCEPT ![Waiter].pc = "idle"]
            /\ UNCHANGED thread_pool
       ELSE /\ threads' = [threads EXCEPT ![Waiter].pc = "blocked"]
            /\ thread_pool' = [thread_pool EXCEPT !.finished = @ \cup {Waiter}]
    /\ UNCHANGED <<cacheVars, engine, session_manager, requests, teardown, crashed>>

\* ThreadPool::wait_all, under queue_mutex: finished.wait evaluates its
\* predicate, returns when it holds and blocks when it does not.
Pool_WaitAll_Check ==
    /\ threads[Waiter].pc = "check"
    /\ IF thread_pool.tasks = <<>> /\ thread_pool.working = 0
       THEN /\ threads' = [threads EXCEPT ![Waiter].pc = "idle"]
            /\ UNCHANGED thread_pool
       ELSE /\ threads' = [threads EXCEPT ![Waiter].pc = "blocked"]
            /\ thread_pool' = [thread_pool EXCEPT !.finished = @ \cup {Waiter}]
    /\ UNCHANGED <<cacheVars, engine, session_manager, requests, teardown, crashed>>

\* A thread blocked in a condition variable may wake without a notify.
Pool_SpuriousWake(t) ==
    /\ threads[t].pc = "blocked"
    /\ threads' = [threads EXCEPT ![t].pc = "check"]
    /\ thread_pool' = [thread_pool EXCEPT !.condition = @ \ {t}, !.finished = @ \ {t}]
    /\ UNCHANGED <<cacheVars, engine, session_manager, requests, teardown, crashed>>

\* ~ThreadPool, under queue_mutex: stop = true.  pending_at_destroy records
\* the tasks not yet executed.
Pool_Destroy_Stop ==
    /\ teardown.pc = "alive"
    /\ threads[Producer].pc = "idle"
    /\ threads[Waiter].pc = "idle"
    /\ thread_pool' = [thread_pool EXCEPT !.stop = TRUE]
    /\ requests' = [i \in 1..Len(requests) |->
                      [requests[i] EXCEPT !.pending_at_destroy = requests[i].executed = 0]]
    /\ teardown' = [pc |-> "notify"]
    /\ UNCHANGED <<cacheVars, engine, session_manager, threads, crashed>>

\* ~ThreadPool: condition.notify_all
Pool_Destroy_Notify ==
    /\ teardown.pc = "notify"
    /\ threads' = NotifyAll(threads, thread_pool.condition)
    /\ thread_pool' = [thread_pool EXCEPT !.condition = {}]
    /\ teardown' = [pc |-> "join"]
    /\ UNCHANGED <<cacheVars, engine, session_manager, requests, crashed>>

\* ~ThreadPool: every worker has been joined.
Pool_Destroy_Join ==
    /\ teardown.pc = "join"
    /\ \A w \in Workers : threads[w].pc = "exited"
    /\ teardown' = [pc |-> "destroyed"]
    /\ UNCHANGED <<cacheVars, engine, thread_pool, session_manager, threads, requests, crashed>>

InitPool ==
    /\ cache_manager = NewCacheImpl(EngineCacheBytes)
    /\ now = 0
    /\ use_order = <<>>
    /\ last_call = NoCall
    /\ engine = [initialized |-> FALSE]
    /\ session_manager = [total_inferences |-> 0]
    /\ crashed = FALSE
    /\ thread_pool = [tasks |-> <<>>, stop |-> FALSE, working |-> 0,
                      condition |-> {}, finished |-> {}]
    /\ threads = [t \in PoolThreads |->
                    [pc |-> IF t \in Workers THEN "check" ELSE "idle", task |-> 0]]
    /\ requests = <<>>
    /\ teardown = [pc |-> "alive"]

\* What a worker does, what the destructor does once it has begun.
PoolWorker(w) == Pool_WorkerCheck(w) \/ Pool_WorkerRun(w) \/ Pool_WorkerFinish(w)

PoolDestructor == Pool_Destroy_Notify \/ Pool_Destroy_Join

NextPool ==
    \/ \E w \in Workers : Pool_WorkerCheck(w)
    \/ \E w \in Workers : Pool_WorkerRun(w)
    \/ \E w \in Workers : Pool_WorkerFinish(w)
    \/ Pool_Enqueue
    \/ Pool_EnqueueNotify
    \/ Pool_WaitAll_Call
    \/ Pool_WaitAll_Check
    \/ \E t \in PoolThreads : Pool_SpuriousWake(t)
    \/ Pool_Destroy_Stop
    \/ Pool_Destroy_Notify
    \/ Pool_Destroy_Join

SpecPool == InitPool /\ [][NextPool]_vars

\* Every thread that can take a step of its own eventually takes one; the
\* calls of enqueue and wait_all, the start of the destruction and the
\* spurious wake-ups are left to the environment.
SpecPoolFair ==
    /\ SpecPool
    /\ \A w \in Workers : WF_vars(PoolWorker(w))
    /\ WF_vars(PoolDestructor)
    /\ WF_vars(Pool_EnqueueNotify)
    /\ WF_vars(Pool_WaitAll_Check)

\* ------------------------------------------------------------------------
\* Specification of the audio-sample cache (the second CacheManager of
\* cache_manager.cpp) used by one thread: any sequence of public calls.
\*   impl.cache           key -> [audio_len, last_access, memory_size]
\*   impl.lru_list        list of keys, front (index 1) = most recent
\*   impl.lru_map         keys that own an iterator into lru_list
\*   impl.max_entries, impl.max_memory_mb, impl.current_memory, impl.enabled
\*   impl.mutex           TRUE while a lock_guard holds the mutex
\*   impl.hits, impl.misses, impl.evictions
\* A key stands for the hash GenerateCacheKey makes of (text, voice, speed,
\* pitch, phonemes).  Sizes are in the units of CalculateMemorySize above:
\* sizeof(CacheEntry) is one unit and a sample is one unit; a megabyte is
\* MBytes units.  Time is in whole minutes, as PruneOldEntries counts it.
\* CacheEntry.access_count is written and never read; it is left out.
\* ------------------------------------------------------------------------
MaxEntries == 2
MaxMemoryMB == 1
MBytes == 2

SampleKeys == {"k1", "k2"}

SampleCaller == <<"caller", 1>>

NewSampleCacheImpl(max_entries, max_memory_mb) ==
    [cache |-> EmptyMap, lru_list |-> <<>>, lru_map |-> {},
     max_entries |-> max_entries, max_memory_mb |-> max_memory_mb,
     current_memory |-> 0, enabled |-> TRUE, mutex |-> FALSE,
     hits |-> 0, misses |-> 0, evictions |-> 0]

TouchEntry(impl, key, t) ==
    LET erased == IF key \in impl.lru_map THEN SeqRemove(impl.lru_list, key)
                  ELSE impl.lru_list
        listed == [impl EXCEPT !.lru_list = <<key>> \o erased,
                               !.lru_map = impl.lru_map \cup {key}]
    IN IF key \in DOMAIN impl.cache
       THEN [listed EXCEPT !.cache[key].last_access = t]
       ELSE listed

\* One eviction: the least recently used entry.
SampleEvictLRU(impl) ==
    IF impl.lru_list # <<>>
    THEN LET key_to_evict == impl.lru_list[Len(impl.lru_list)]
             popped == [impl EXCEPT !.lru_list = SubSeq(impl.lru_list, 1, Len(impl.lru_list) - 1),
                                    !.lru_map = impl.lru_map \ {key_to_evict}]
         IN IF key_to_evict \in DOMAIN popped.cache
            THEN [popped EXCEPT
                    !.current_memory = popped.current_memory - popped.cache[key_to_evict].memory_size,
                    !.cache = MapRemove(popped.cache, key_to_evict),
                    !.evictions = popped.evictions + 1]
            ELSE popped
    ELSE impl

\* The loops below run while the table is not empty; the list is empty
\* only when the table is, so they stop on the list.
RECURSIVE EnforceMemoryLimit(_)
EnforceMemoryLimit(impl) ==
    IF /\ impl.current_memory > impl.max_memory_mb * MBytes
       /\ DOMAIN impl.cache # {}
       /\ impl.lru_list # <<>>
    THEN EnforceMemoryLimit(SampleEvictLRU(impl))
    ELSE impl

RECURSIVE EnforceEntryLimit(_)
EnforceEntryLimit(impl) ==
    IF /\ Cardinality(DOMAIN impl.cache) >= impl.max_entries
       /\ DOMAIN impl.cache # {}
       /\ impl.lru_list # <<>>
    THEN EnforceEntryLimit(SampleEvictLRU(impl))
    ELSE impl

SampleMemorySize(audio_len) == audio_len + 1

SetMaxEntries(impl, max_entries) ==
    EnforceEntryLimit([impl EXCEPT !.max_entries = max_entries])

SetMaxMemoryMB(impl, max_memory_mb) ==
    EnforceMemoryLimit([impl EXCEPT !.max_memory_mb = max_memory_mb])

\* Put returns the new Impl and its boolean.
SamplePut(impl, key, audio_len, t) ==
    IF ~impl.enabled THEN [impl |-> impl, ret |-> FALSE]
    ELSE IF key \in DOMAIN impl.cache
    THEN [impl |-> TouchEntry(impl, key, t), ret |-> TRUE]
    ELSE LET memory_size == SampleMemorySize(audio_len)
             limited == EnforceEntryLimit(impl)
             charged == EnforceMemoryLimit(
                          [limited EXCEPT !.current_memory = limited.current_memory + memory_size])
             added == [charged EXCEPT !.cache = MapPut(charged.cache, key,
                          [audio_len |-> audio_len, last_access |-> t, memory_size |-> memory_size])]
         IN [impl |-> TouchEntry(added, key, t), ret |-> TRUE]

SampleGet(impl, key, t) ==
    IF ~impl.enabled
    THEN [impl |-> [impl EXCEPT !.misses = impl.misses + 1], ret |-> Nullopt]
    ELSE IF key \in DOMAIN impl.cache
    THEN [impl |-> [TouchEntry(impl, key, t) EXCEPT !.hits = impl.hits + 1],
          ret |-> Some(impl.cache[key].audio_len)]
    ELSE [impl |-> [impl EXCEPT !.misses = impl.misses + 1], ret |-> Nullopt]

Contains(impl, key) == impl.enabled /\ key \in DOMAIN impl.cache

SampleClear(impl) ==
    [impl EXCEPT !.cache = EmptyMap, !.lru_list = <<>>, !.lru_map = {},
                 !.current_memory = 0]

GetEntryCount(impl) == Cardinality(DOMAIN impl.cache)

GetMemoryUsageMB(impl) == impl.current_memory \div MBytes

RECURSIVE PruneLoop(_, _)
PruneLoop(impl, to_remove) ==
    IF to_remove = {} THEN impl
    ELSE LET key == CHOOSE k \in to_remove : TRUE
             unlisted == IF key \in impl.lru_map
                         THEN [impl EXCEPT !.lru_list = SeqRemove(impl.lru_list, key),
                                           !.lru_map = impl.lru_map \ {key}]
                         ELSE impl
         IN PruneLoop([unlisted EXCEPT
                         !.current_memory = impl.current_memory - impl.cache[key].memory_size,
                         !.cache = MapRemove(impl.cache, key),
                         !.evictions = impl.evictions + 1],
                      to_remove \ {key})

PruneOldEntries(impl, max_age, t) ==
    PruneLoop(impl, {k \in DOMAIN impl.cache : t - impl.cache[k].last_access > max_age})

NoSampleCall == [op |-> "none", key |-> "", ret |-> Nullopt, threw |-> FALSE]

InitSampleCache ==
    /\ cache_manager \in {NewSampleCacheImpl(e, m) : e \in 1..MaxEntries, m \in 1..MaxMemoryMB}
    /\ now = 0
    /\ use_order = <<>>
    /\ last_call = NoSampleCall
    /\ engine = [initialized |-> FALSE]
    /\ thread_pool = [stop |-> FALSE]
    /\ session_manager = [total_inferences |-> 0]
    /\ threads = [c \in {SampleCaller} |-> [pc |-> "idle"]]
    /\ requests = <<>>
    /\ teardown = [pc |-> "alive"]
    /\ crashed = FALSE

\* A call that takes the mutex once: lock, body, unlock in one step.
SampleCall(after, op, key, ret) ==
    /\ threads[SampleCaller].pc = "idle"
    /\ ~cache_manager.mutex
    /\ StatsBelowBound(after)
    /\ cache_manager' = after
    /\ last_call' = [NoSampleCall EXCEPT !.op = op, !.key = key, !.ret = ret]
    /\ UNCHANGED <<now, use_order, engineVars>>

CallSetMaxEntries(n) == SampleCall(SetMaxEntries(cache_manager, n), "SetMaxEntries", "", Nullopt)

CallSetMaxMemoryMB(n) == SampleCall(SetMaxMemoryMB(cache_manager, n), "SetMaxMemoryMB", "", Nullopt)

CallSamplePut(key, audio_len) ==
    LET r == SamplePut(cache_manager, key, audio_len, now)
    IN SampleCall(r.impl, "Put", key, Some(r.ret))

CallSampleGet(key) ==
    LET r == SampleGet(cache_manager, key, now)
    IN SampleCall(r.impl, "Get", key, r.ret)

CallContains(key) ==
    SampleCall(cache_manager, "Contains", key, Some(Contains(cache_manager, key)))

CallSampleClear == SampleCall(SampleClear(cache_manager), "Clear", "", Nullopt)

CallGetEntryCount ==
    SampleCall(cache_manager, "GetEntryCount", "", Some(GetEntryCount(cache_manager)))

CallGetMemoryUsageMB ==
    SampleCall(cache_manager, "GetMemoryUsageMB", "", Some(GetMemoryUsageMB(cache_manager)))

CallSampleResetStats == SampleCall(ResetStats(cache_manager), "ResetStats", "", Nullopt)

CallPruneOldEntries(max_age) ==
    SampleCall(PruneOldEntries(cache_manager, max_age, now), "PruneOldEntries", "", Nullopt)

\* SetEnabled: the lock_guard is taken and the flag written.  Enabling
\* returns; disabling goes on to call Clear() with the mutex held.
CallSetEnabled(enabled) ==
    /\ threads[SampleCaller].pc = "idle"
    /\ ~cache_manager.mutex
    /\ cache_manager' = [cache_manager EXCEPT !.enabled = enabled, !.mutex = ~enabled]
    /\ threads' = [threads EXCEPT ![SampleCaller].pc = IF enabled THEN "idle" ELSE "SetEnabled"]
    /\ last_call' = [NoSampleCall EXCEPT !.op = "SetEnabled"]
    /\ UNCHANGED <<now, use_order, engine, thread_pool, session_manager, requests, teardown, crashed>>

\* GetStats: the lock_guard is taken and the counters read; it goes on to
\* call GetMemoryUsageMB() with the mutex held.
CallGetStats ==
    /\ threads[SampleCaller].pc = "idle"
    /\ ~cache_manager.mutex
    /\ cache_manager' = [cache_manager EXCEPT !.mutex = TRUE]
    /\ threads' = [threads EXCEPT ![SampleCaller].pc = "GetStats"]
    /\ last_call' = [NoSampleCall EXCEPT !.op = "GetStats"]
    /\ UNCHANGED <<now, use_order, engine, thread_pool, session_manager, requests, teardown, crashed>>

\* What locking a std::mutex its own thread holds can do: block for ever,
\* or throw std::system_error (resource_deadlock_would_occur).
RelockOutcomes == {"deadlock", "system_error"}

\* The nested call (Clear from SetEnabled, GetMemoryUsageMB from GetStats)
\* constructs its lock_guard on the mutex the caller already holds.  The
\* exception unwinds the outer lock_guard and leaves the call.
NestedLock(outcome) ==
    /\ threads[SampleCaller].pc \in {"SetEnabled", "GetStats"}
    /\ cache_manager.mutex
    /\ IF outcome = "deadlock"
       THEN /\ threads' = [threads EXCEPT ![SampleCaller].pc = "deadlocked"]
            /\ UNCHANGED <<cache_manager, last_call>>
       ELSE /\ threads' = [threads EXCEPT ![SampleCaller].pc = "idle"]
            /\ cache_manager' = [cache_manager EXCEPT !.mutex = FALSE]
            /\ last_call' = [last_call EXCEPT !.threw = TRUE]
    /\ UNCHANGED <<now, use_order, engine, thread_pool, session_manager, requests, teardown, crashed>>

SampleTick ==
    /\ threads[SampleCaller].pc = "idle"
    /\ now < MaxTime
    /\ now' = now + 1
    /\ last_call' = [NoSampleCall EXCEPT !.op = "Tick"]
    /\ UNCHANGED <<cache_manager, use_order, engineVars>>

NextSampleCache ==
    \/ \E n \in 0..MaxEntries : CallSetMaxEntries(n)
    \/ \E n \in 0..MaxMemoryMB : CallSetMaxMemoryMB(n)
    \/ \E b \in BOOLEAN : CallSetEnabled(b)
    \/ \E key \in SampleKeys, n \in 0..MaxAudioLen : CallSamplePut(key, n)
    \/ \E key \in SampleKeys : CallSampleGet(key)
    \/ \E key \in SampleKeys : CallContains(key)
    \/ CallSampleClear
    \/ CallGetEntryCount
    \/ CallGetMemoryUsageMB
    \/ CallGetStats
    \/ CallSampleResetStats
    \/ \E a \in 0..MaxTTL : CallPruneOldEntries(a)
    \/ \E o \in RelockOutcomes : NestedLock(o)
    \/ SampleTick

SpecSampleCache == InitSampleCache /\ [][NextSampleCache]_vars

\* ------------------------------------------------------------------------
\* Specification of the statistics of the inference session: two threads
\* calling RunInference, GetStats, ResetStats and Warmup of one
\* SessionManager.
\*   session_manager.loaded, .total_inferences
\*   session_manager.stats_mutex    the thread holding stats_mutex, if any
\* The three latency fields are written and read in the same places as
\* total_inferences; the counter stands for the four.
\* ------------------------------------------------------------------------
SessionThreads == {<<"caller", 1>>, <<"caller", 2>>}

SessionOps == {"RunInference", "GetStats", "ResetStats", "Warmup"}

\* The positions at which a thread reads or writes the statistics.
StatsAccess == {"update_stats", "read_stats", "reset_stats", "warmup_reset"}

InitSession ==
    /\ cache_manager = NewCacheImpl(EngineCacheBytes)
    /\ now = 0
    /\ use_order = <<>>
    /\ last_call = NoCall
    /\ engine = [initialized |-> FALSE]
    /\ thread_pool = [stop |-> FALSE]
    /\ session_manager = [loaded |-> FALSE, total_inferences |-> 0, stats_mutex |-> Nullopt]
    /\ threads = [t \in SessionThreads |-> [pc |-> "idle", op |-> "none"]]
    /\ requests = <<>>
    /\ teardown = [pc |-> "alive"]
    /\ crashed = FALSE

\* The inferences under way or counted.
InferenceLoad ==
    session_manager.total_inferences
      + Cardinality({t \in SessionThreads : threads[t].op \in {"RunInference", "Warmup"}})

\* LoadModel, before the session is shared between threads.
Sess_LoadModel(ok) ==
    /\ \A t \in SessionThreads : threads[t].pc = "idle"
    /\ session_manager' = [session_manager EXCEPT !.loaded = ok]
    /\ UNCHANGED <<cacheVars, engine, thread_pool, threads, requests, teardown, crashed>>

\* A thread enters one of the four operations.  RunInference on a session
\* without a model returns at once, and so does Warmup.
Sess_Call(t, op) ==
    /\ threads[t].pc = "idle"
    /\ op \in {"RunInference", "Warmup"} => InferenceLoad < MaxRequests
    /\ threads' = [threads EXCEPT ![t] =
         IF op = "GetStats" THEN [pc |-> "lock_read", op |-> op]
         ELSE IF op = "ResetStats" THEN [pc |-> "lock_reset", op |-> op]
         ELSE IF ~session_manager.loaded THEN [pc |-> "idle", op |-> "none"]
         ELSE [pc |-> "run", op |-> op]]
    /\ UNCHANGED <<cacheVars, engine, thread_pool, session_manager, requests, teardown, crashed>>

\* Where RunInference returns to.
AfterRunInference(op) ==
    IF op = "Warmup" THEN [pc |-> "warmup_reset", op |-> op]
    ELSE [pc |-> "idle", op |-> "none"]

\* RunInference: session->Run returns a tensor, or nothing, or throws.
Sess_Run(t, outcome) ==
    /\ threads[t].pc = "run"
    /\ threads' = [threads EXCEPT ![t] =
         IF outcome = "samples" THEN [pc |-> "lock_update", op |-> threads[t].op]
         ELSE AfterRunInference(threads[t].op)]
    /\ UNCHANGED <<cacheVars, engine, thread_pool, session_manager, requests, teardown, crashed>>

\* std::lock_guard<std::mutex> lock(stats_mutex)
Sess_Lock(t) ==
    /\ threads[t].pc \in {"lock_update", "lock_read", "lock_reset"}
    /\ ~session_manager.stats_mutex.has_value
    /\ session_manager' = [session_manager EXCEPT !.stats_mutex = Some(t)]
    /\ threads' = [threads EXCEPT ![t].pc =
         IF threads[t].pc = "lock_update" THEN "update_stats"
         ELSE IF threads[t].pc = "lock_read" THEN "read_stats"
         ELSE "reset_stats"]
    /\ UNCHANGED <<cacheVars, engine, thread_pool, requests, teardown, crashed>>

\* RunInference: total_inferences++ and the latencies, then the unlock.
Sess_UpdateStats(t) ==
    /\ threads[t].pc = "update_stats"
    /\ session_manager' = [session_manager EXCEPT !.total_inferences = @ + 1,
                                                  !.stats_mutex = Nullopt]
    /\ threads' = [threads EXCEPT ![t] = AfterRunInference(threads[t].op)]
    /\ UNCHANGED <<cacheVars, engine, thread_pool, requests, teardown, crashed>>

\* GetStats: the fields are copied, then the unlock.
Sess_ReadStats(t) ==
    /\ threads[t].pc = "read_stats"
    /\ session_manager' = [session_manager EXCEPT !.stats_mutex = Nullopt]
    /\ threads' = [threads EXCEPT ![t] = [pc |-> "idle", op |-> "none"]]
    /\ UNCHANGED <<cacheVars, engine, thread_pool, requests, teardown, crashed>>

\* ResetStats: the fields are zeroed, then the unlock.
Sess_ResetStats(t) ==
    /\ threads[t].pc = "reset_stats"
    /\ session_manager' = [session_manager EXCEPT !.total_inferences = 0,
                                                  !.stats_mutex = Nullopt]
    /\ threads' = [threads EXCEPT ![t] = [pc |-> "idle", op |-> "none"]]
    /\ UNCHANGED <<cacheVars, engine, thread_pool, requests, teardown, crashed>>

\* Warmup: the fields are zeroed with no lock taken.  When another thread
\* is reading or writing them at that moment the two accesses race, and
\* the counter is left with any value.
Sess_WarmupReset(t) ==
    /\ threads[t].pc = "warmup_reset"
    /\ IF \E u \in SessionThreads \ {t} : threads[u].pc \in StatsAccess
       THEN \E n \in 0..MaxRequests :
              session_manager' = [session_manager EXCEPT !.total_inferences = n]
       ELSE session_manager' = [session_manager EXCEPT !.total_inferences = 0]
    /\ threads' = [threads EXCEPT ![t] = [pc |-> "idle", op |-> "none"]]
    /\ UNCHANGED <<cacheVars, engine, thread_pool, requests, teardown, crashed>>

NextSession ==
    \/ \E ok \in BOOLEAN : Sess_LoadModel(ok)
    \/ \E t \in SessionThreads, op \in SessionOps : Sess_Call(t, op)
    \/ \E t \in SessionThreads, o \in InferenceOutcomes : Sess_Run(t, o)
    \/ \E t \in SessionThreads : Sess_Lock(t)
    \/ \E t \in SessionThreads : Sess_UpdateStats(t)
    \/ \E t \in SessionThreads : Sess_ReadStats(t)
    \/ \E t \in SessionThreads : Sess_ResetStats(t)
    \/ \E t \in SessionThreads : Sess_WarmupReset(t)

SpecSession == InitSession /\ [][NextSession]_vars

\* ------------------------------------------------------------------------
\* Specification of the C API (jp_edge_tts_c_api.cpp): two threads calling
\* the functions that create, use and destroy engines and results.
\*   engine.g_engines, engine.g_results     handle -> object
\*   engine.g_next_engine_id, engine.g_next_result_id
\*   requests    history: every object created, the handle it was issued
\*               under, and whether that handle was destroyed since
\* An object is named by its index in the history.  A call holds the mutex
\* of the table it uses from its lookup to its return, so it is one step;
\* jp_tts_create_engine builds the engine before it takes the mutex.
\* Handles are pointer-wide counters; they do not wrap within the bounds.
\* ------------------------------------------------------------------------
ApiThreads == {<<"caller", 1>>, <<"caller", 2>>}

\* The handles a client may pass: 0, the handles issued within the bounds,
\* and one more.
HandleValues == 0..(MaxRequests + 1)

NoApiCall == [op |-> "none", kind |-> "", handle |-> 0, valid |-> FALSE,
              touched |-> {}, status |-> "", value |-> 0]

InitCApi ==
    /\ cache_manager = NewCacheImpl(EngineCacheBytes)
    /\ now = 0
    /\ use_order = <<>>
    /\ last_call = NoApiCall
    /\ engine = [g_engines |-> EmptyMap, g_results |-> EmptyMap,
                 g_next_engine_id |-> 1, g_next_result_id |-> 1]
    /\ thread_pool = [stop |-> FALSE]
    /\ session_manager = [total_inferences |-> 0]
    /\ threads = [t \in ApiThreads |-> [pc |-> "idle"]]
    /\ requests = <<>>
    /\ teardown = [pc |-> "alive"]
    /\ crashed = FALSE

\* The objects created, or constructed and about to be registered.
ObjectsCreated ==
    Len(requests) + Cardinality({u \in ApiThreads : threads[u].pc = "constructed"})

\* The handle was issued for an object of the kind and not destroyed since.
ValidHandle(kind, handle) ==
    \E i \in 1..Len(requests) :
        /\ requests[i].kind = kind
        /\ requests[i].handle = handle
        /\ ~requests[i].destroyed

\* The history after the handle was passed to a destroy function.
MarkDestroyed(kind, handle) ==
    [i \in 1..Len(requests) |->
        IF requests[i].kind = kind /\ requests[i].handle = handle
        THEN [requests[i] EXCEPT !.destroyed = TRUE] ELSE requests[i]]

ApiCall(op, kind, handle) ==
    [NoApiCall EXCEPT !.op = op, !.kind = kind, !.handle = handle,
                      !.valid = ValidHandle(kind, handle)]

\* ConvertStatus
ConvertStatus(status) ==
    IF status = "OK" THEN "JP_TTS_OK"
    ELSE IF status \in {"ERROR_INVALID_INPUT", "ERROR_NOT_INITIALIZED"}
    THEN "JP_TTS_" \o status
    ELSE "JP_TTS_ERROR_UNKNOWN"

\* jp_tts_create_engine: CreateTTSEngine(cpp_config) returns the engine, or
\* throws and the function returns 0.
C_CreateEngine_Construct(t, ok) ==
    /\ threads[t].pc = "idle"
    /\ ObjectsCreated < MaxRequests
    /\ IF ok
       THEN /\ threads' = [threads EXCEPT ![t].pc = "constructed"]
            /\ UNCHANGED last_call
       ELSE /\ last_call' = [NoApiCall EXCEPT !.op = "jp_tts_create_engine"]
            /\ UNCHANGED threads
    /\ UNCHANGED <<cache_manager, now, use_order, engine, thread_pool, session_manager,
                   requests, teardown, crashed>>

\* A registration that does not advance the counter.
C_CreateEngine_Register_NoIncrement(t) ==
    LET handle == engine.g_next_engine_id
        object == Len(requests) + 1 IN
    /\ threads[t].pc = "constructed"
    /\ engine' = [engine EXCEPT !.g_engines = MapPut(@, handle, object)]
    /\ requests' = Append(requests, [kind |-> "engine", handle |-> handle, destroyed |-> FALSE,
                                     initialized |-> FALSE, status |-> ""])
    /\ threads' = [threads EXCEPT ![t].pc = "idle"]
    /\ last_call' = [NoApiCall EXCEPT !.op = "jp_tts_create_engine", !.value = handle]
    /\ UNCHANGED <<cache_manager, now, use_order, thread_pool, session_manager, teardown, crashed>>

\* jp_tts_create_engine, under g_engines_mutex: handle = g_next_engine_id++
\* and the engine is stored under it.
C_CreateEngine_Register(t) ==
    LET handle == engine.g_next_engine_id
        object == Len(requests) + 1 IN
    /\ threads[t].pc = "constructed"
    /\ engine' = [engine EXCEPT !.g_next_engine_id = handle + 1,
                                !.g_engines = MapPut(@, handle, object)]
    /\ requests' = Append(requests, [kind |-> "engine", handle |-> handle, destroyed |-> FALSE,
                                     initialized |-> FALSE, status |-> ""])
    /\ threads' = [threads EXCEPT ![t].pc = "idle"]
    /\ last_call' = [NoApiCall EXCEPT !.op = "jp_tts_create_engine", !.value = handle]
    /\ UNCHANGED <<cache_manager, now, use_order, thread_pool, session_manager, teardown, crashed>>

\* jp_tts_initialize: TTSEngine::Initialize succeeds or fails.
C_Initialize(t, handle, ok) ==
    LET call == ApiCall("jp_tts_initialize", "engine", handle) IN
    /\ threads[t].pc = "idle"
    /\ IF handle \notin DOMAIN engine.g_engines
       THEN /\ last_call' = [call EXCEPT !.status = "JP_TTS_ERROR_INVALID_INPUT"]
            /\ UNCHANGED requests
       ELSE LET object == engine.g_engines[handle] IN
            /\ requests' = [requests EXCEPT ![object].initialized = @ \/ ok]
            /\ last_call' = [call EXCEPT !.touched = {object},
                                         !.status = IF ok THEN "JP_TTS_OK"
                                                    ELSE "JP_TTS_ERROR_INITIALIZATION_FAILED"]
    /\ UNCHANGED <<cache_manager, now, use_order, engine, thread_pool, session_manager,
                   threads, teardown, crashed>>

\* jp_tts_destroy_engine: g_engines.erase(engine)
C_DestroyEngine(t, handle) ==
    LET call == ApiCall("jp_tts_destroy_engine", "engine", handle) IN
    /\ threads[t].pc = "idle"
    /\ engine' = [engine EXCEPT !.g_engines = IF handle \in DOMAIN @ THEN MapRemove(@, handle) ELSE @]
    /\ requests' = MarkDestroyed("engine", handle)
    /\ last_call' = [call EXCEPT !.touched = IF handle \in DOMAIN engine.g_engines
                                            THEN {engine.g_engines[handle]} ELSE {}]
    /\ UNCHANGED <<cache_manager, now, use_order, thread_pool, session_manager,
                   threads, teardown, crashed>>

\* jp_tts_is_initialized
C_IsInitialized(t, handle) ==
    LET call == ApiCall("jp_tts_is_initialized", "engine", handle) IN
    /\ threads[t].pc = "idle"
    /\ last_call' =
         IF handle \notin DOMAIN engine.g_engines THEN call
         ELSE LET object == engine.g_engines[handle]
              IN [call EXCEPT !.touched = {object},
                              !.value = IF requests[object].initialized THEN 1 ELSE 0]
    /\ UNCHANGED <<cache_manager, now, use_order, engine, thread_pool, session_manager,
                   threads, requests, teardown, crashed>>

\* jp_tts_synthesize and jp_tts_synthesize_simple, under g_engines_mutex
\* and then g_results_mutex: the result of TTSEngine::Synthesize is stored
\* under handle = g_next_result_id++; an exception makes the call return 0.
C_Synthesize(t, handle, outcome) ==
    LET call == ApiCall("jp_tts_synthesize", "engine", handle) IN
    /\ threads[t].pc = "idle"
    /\ ObjectsCreated < MaxRequests
    /\ IF handle \notin DOMAIN engine.g_engines
       THEN /\ last_call' = call
            /\ UNCHANGED <<engine, requests>>
       ELSE LET object == engine.g_engines[handle]
                result == engine.g_next_result_id
                status == IF ~requests[object].initialized THEN "ERROR_NOT_INITIALIZED"
                          ELSE IF outcome = "samples" THEN "OK"
                          ELSE "ERROR_INFERENCE_FAILED"
            IN IF outcome = "throw"
               THEN /\ last_call' = [call EXCEPT !.touched = {object}]
                    /\ UNCHANGED <<engine, requests>>
               ELSE /\ engine' = [engine EXCEPT !.g_next_result_id = result + 1,
                                                !.g_results = MapPut(@, result, Len(requests) + 1)]
                    /\ requests' = Append(requests,
                           [kind |-> "result", handle |-> result, destroyed |-> FALSE,
                            initialized |-> FALSE, status |-> status])
                    /\ last_call' = [call EXCEPT !.touched = {object}, !.value = result]
    /\ UNCHANGED <<cache_manager, now, use_order, thread_pool, session_manager,
                   threads, teardown, crashed>>

\* jp_tts_result_get_status; the other getters of a result have its shape.
C_ResultGetStatus(t, handle) ==
    LET call == ApiCall("jp_tts_result_get_status", "result", handle) IN
    /\ threads[t].pc = "idle"
    /\ last_call' =
         IF handle \notin DOMAIN engine.g_results
         THEN [call EXCEPT !.status = "JP_TTS_ERROR_INVALID_INPUT"]
         ELSE LET object == engine.g_results[handle]
              IN [call EXCEPT !.touched = {object},
                              !.status = ConvertStatus(requests[object].status)]
    /\ UNCHANGED <<cache_manager, now, use_order, engine, thread_pool, session_manager,
                   threads, requests, teardown, crashed>>

\* jp_tts_result_free: g_results.erase(result)
C_ResultFree(t, handle) ==
    LET call == ApiCall("jp_tts_result_free", "result", handle) IN
    /\ threads[t].pc = "idle"
    /\ engine' = [engine EXCEPT !.g_results = IF handle \in DOMAIN @ THEN MapRemove(@, handle) ELSE @]
    /\ requests' = MarkDestroyed("result", handle)
    /\ last_call' = [call EXCEPT !.touched = IF handle \in DOMAIN engine.g_results
                                            THEN {engine.g_results[handle]} ELSE {}]
    /\ UNCHANGED <<cache_manager, now, use_order, thread_pool, session_manager,
                   threads, teardown, crashed>>

NextCApi ==
    \/ \E t \in ApiThreads, ok \in BOOLEAN : C_CreateEngine_Construct(t, ok)
    \/ \E t \in ApiThreads : C_CreateEngine_Register(t)
    \/ \E t \in ApiThreads, h \in HandleValues, ok \in BOOLEAN : C_Initialize(t, h, ok)
    \/ \E t \in ApiThreads, h \in HandleValues : C_DestroyEngine(t, h)
    \/ \E t \in ApiThreads, h \in HandleValues : C_IsInitialized(t, h)
    \/ \E t \in ApiThreads, h \in HandleValues, o \in InferenceOutcomes : C_Synthesize(t, h, o)
    \/ \E t \in ApiThreads, h \in HandleValues : C_ResultGetStatus(t, h)
    \/ \E t \in ApiThreads, h \in HandleValues : C_ResultFree(t, h)

SpecCApi == InitCApi /\ [][NextCApi]_vars

\* ------------------------------------------------------------------------
\* Properties of the result cache
\* ------------------------------------------------------------------------

\* C2: whenever Put or SetMaxSize has returned, the tracked size in bytes is
\* at most the configured maximum, whatever calls came before and whatever
\* the entry sizes are (an entry larger than the maximum included).
C2_SizeWithinMax ==
    last_call.op \in {"Put", "SetMaxSize"} =>
        cache_manager.current_size_bytes <= cache_manager.max_size_bytes

\* C2 witness: a Put of an entry that alone exceeds the maximum has returned
\* (the entry was evicted by its own Put).
C2_Witness_OversizePut ==
    /\ last_call.op = "Put"
    /\ last_call.key \in last_call.evicted
    /\ cache_manager.max_size_bytes > 0

OlderThanAllKept(order, evicted) ==
    \A e \in evicted : \A k \in SeqToSet(order) \ evicted :
        IndexOf(order, e) > IndexOf(order, k)

\* C3: strict LRU.  The LRU list is the cached keys ordered by their last
\* successful Get or Put; a successful Get and a Put leave their key at the
\* most-recent end; and the entries a call evicts are older, by last
\* successful Get or Put, than every entry it keeps.
C3_StrictLRU ==
    [][ /\ cache_manager'.lru_list = use_order'
        /\ (/\ last_call'.op \in {"Get", "Put"}
            /\ last_call'.op = "Get" => last_call'.ret.has_value
            /\ last_call'.key \in DOMAIN cache_manager'.cache)
              => cache_manager'.lru_list[1] = last_call'.key
        /\ last_call'.op = "Put"
              => OlderThanAllKept(Touched(use_order, last_call'.key), last_call'.evicted)
        /\ last_call'.op = "SetMaxSize"
              => OlderThanAllKept(use_order, last_call'.evicted) ]_vars

\* C3 witness: a Put evicted an entry for capacity and kept an older-inserted
\* one that a Get had refreshed.
C3_Witness_EvictOldest ==
    /\ last_call.op = "Put"
    /\ last_call.evicted # {}
    /\ Len(cache_manager.lru_list) >= 2
    /\ \E i, j \in 1..Len(cache_manager.lru_list) :
          /\ i < j
          /\ cache_manager.cache[cache_manager.lru_list[i]].created
               < cache_manager.cache[cache_manager.lru_list[j]].created

\* The claim's notion of an expired entry: a TTL is set and the entry is
\* older than it.
EntryExpired(ttl, created, t) == ttl > 0 /\ t - created > ttl

\* C4: with a TTL t > 0, a Get on an expired entry removes it from the table,
\* the LRU list and the byte total, counts a miss and returns nothing; with
\* TTL 0 no entry is treated as expired (Get returns it, CleanExpired
\* removes nothing).
C4_ExpiredGetRemoves ==
    [][ LET key == last_call'.key
            impl == cache_manager
        IN /\ (/\ last_call'.op = "Get"
               /\ key \in DOMAIN impl.cache
               /\ EntryExpired(impl.ttl_seconds, impl.cache[key].created, now))
                 => /\ key \notin DOMAIN cache_manager'.cache
                    /\ key \notin SeqToSet(cache_manager'.lru_list)
                    /\ key \notin cache_manager'.lru_map
                    /\ cache_manager'.current_size_bytes =
                          impl.current_size_bytes - impl.cache[key].memory_size
                    /\ cache_manager'.misses = impl.misses + 1
                    /\ cache_manager'.hits = impl.hits
                    /\ last_call'.ret = Nullopt
           /\ (/\ last_call'.op = "Get"
               /\ key \in DOMAIN impl.cache
               /\ impl.ttl_seconds = 0)
                 => /\ last_call'.ret = Some(impl.cache[key].result)
                    /\ key \in DOMAIN cache_manager'.cache
           /\ (last_call'.op = "CleanExpired" /\ impl.ttl_seconds = 0)
                 => cache_manager'.cache = impl.cache ]_vars

\* C4 witness: a Get found its key in the table and returned nothing, with
\* a positive TTL.
C4_Witness_ExpiredGet ==
    /\ last_call.op = "Get"
    /\ last_call.found
    /\ ~last_call.ret.has_value
    /\ cache_manager.ttl_seconds > 0


\* ------------------------------------------------------------------------
\* Properties of the engine
\* ------------------------------------------------------------------------
Issued == 1..Len(requests)

Returned(i) == requests[i].fulfilled > 0

Identical(i, j) == requests[i].request = requests[j].request

\* C1: single flight.  Among the requests in progress at one moment, at most
\* one per cache key is running the inference.
C1_SingleFlight ==
    \A t1, t2 \in Threads :
        (/\ t1 # t2
         /\ threads[t1].pc = "inferring"
         /\ threads[t2].pc = "inferring")
          => GenerateCacheKey(requests[threads[t1].rid].request)
               # GenerateCacheKey(requests[threads[t2].rid].request)

\* C5 as stated: every returned request with use_cache that was issued after
\* an identical request had completed with status OK carries cache_hit.
C5_RepeatAlwaysHits ==
    \A j \in Issued : \A i \in requests[j].preceded_by :
        (/\ Returned(j)
         /\ requests[j].request.use_cache
         /\ requests[j].value.value.status = "OK"
         /\ Identical(i, j))
          => requests[j].value.value.cache_hit

\* C5: a returned request with use_cache that was issued after an identical
\* request had completed with status OK carries cache_hit, and the earlier
\* request's samples, provided the entry the earlier request stored was
\* still in the cache (neither evicted nor cleared) when it probed.
C5_RepeatHitsWhileCached ==
    \A j \in Issued : \A i \in requests[j].preceded_by :
        (/\ Returned(j)
         /\ requests[j].request.use_cache
         /\ Identical(i, j)
         /\ requests[j].probe_found)
          => /\ requests[j].value.value.cache_hit
             /\ requests[j].value.value.status = "OK"

\* C5 witness: a request was answered from the cache after an identical
\* request had completed with status OK.
C5_Witness_RepeatHit ==
    \E j \in Issued : \E i \in requests[j].preceded_by :
        /\ Returned(j)
        /\ requests[j].request.use_cache
        /\ Identical(i, j)
        /\ requests[j].probe_found
        /\ requests[j].value.value.cache_hit

\* The process has come to its end: the engine is destroyed or has died.
Terminated == crashed \/ teardown.pc = "destroyed"

\* C6: the handle of every SynthesizeAsync call is completed exactly once:
\* never twice, and once by the time the process ends.
C6_AsyncCompletedOnce ==
    \A i \in Issued :
        requests[i].via = "async"
          => /\ requests[i].fulfilled <= 1
             /\ Terminated => requests[i].fulfilled = 1

C8_ShutdownCancelsQueued ==
    teardown.pc = "destroyed" =>
        \A i \in Issued :
            requests[i].pending_at_destroy
              => /\ requests[i].fulfilled = 1
                 /\ requests[i].value.value.status = "ERROR_CANCELLED"

\* A request that went into the pool's task queue.
Enqueued(i) == requests[i].via = "async" /\ requests[i].stage # "rejected"

\* C9: the pool's tasks are taken in the order of their submission: a task
\* is never taken before one submitted earlier, and with a single worker
\* the handles are completed in submission order.
C9_PoolFIFO ==
    \A i, j \in Issued :
        (i < j /\ Enqueued(i) /\ Enqueued(j))
          => /\ requests[j].stage = "started" => requests[i].stage = "started"
             /\ (Cardinality(Workers) = 1 /\ Returned(j)) => Returned(i)

\* C9 witness: of two tasks in the pool the earlier one is running and the
\* later one is still queued.
C9_Witness_EarlierFirst ==
    \E i, j \in Issued :
        /\ i < j
        /\ Enqueued(i)
        /\ Enqueued(j)
        /\ requests[i].stage = "started"
        /\ ~Returned(i)
        /\ requests[j].stage = "queued"

\* C10: a synthesis call on an engine that is not initialized completes at
\* once with ERROR_NOT_INITIALIZED and changes nothing: no counter, no
\* cache entry, no task, no pipeline stage.
C10_NotInitializedRejected ==
    [][ (Len(requests') = Len(requests) + 1 /\ ~engine.initialized)
          => /\ requests'[Len(requests')].fulfilled = 1
             /\ requests'[Len(requests')].value = Some(ErrorResult("ERROR_NOT_INITIALIZED"))
             /\ UNCHANGED <<engine, thread_pool, threads, cache_manager, session_manager>>
             /\ \A i \in Issued : requests'[i] = requests[i] ]_vars

\* C10 witness: a Synthesize and a SynthesizeAsync call were both answered
\* ERROR_NOT_INITIALIZED, on an engine whose initialization had failed.
C10_Witness_Rejected ==
    /\ ~engine.initialized
    /\ engine.last_error # ""
    /\ \E i, j \in Issued :
          /\ requests[i].via = "sync"
          /\ requests[j].via = "async"
          /\ requests[i].value = Some(ErrorResult("ERROR_NOT_INITIALIZED"))
          /\ requests[j].value = Some(ErrorResult("ERROR_NOT_INITIALIZED"))


\* C11: a returned request that named a voice that is not loaded has the
\* voice-not-found status and no samples, and no inference was run for it.
C11_VoiceNotFoundStatus ==
    \A i \in Issued :
        (/\ Returned(i)
         /\ requests[i].stage = "started"
         /\ requests[i].request.voice_id \notin LoadedVoices)
          => /\ requests[i].value.value.status = "ERROR_VOICE_NOT_FOUND"
             /\ requests[i].value.value.samples = 0
             /\ requests[i].inference = "none"

\* C12: a returned request whose inference failed with an empty buffer has
\* status ERROR_INFERENCE_FAILED and no samples.
C12_EmptyInferenceFails ==
    \A i \in Issued :
        (Returned(i) /\ requests[i].inference = "empty")
          => /\ requests[i].value.value.status = "ERROR_INFERENCE_FAILED"
             /\ requests[i].value.value.samples = 0

\* C13: a synthesis whose inference failed (empty buffer or exception)
\* leaves the result cache as it was.
C13_FailureNotCached ==
    [][ \A t \in Threads :
          (/\ threads[t].pc = "inferring"
           /\ threads'[t].pc = "ret"
           /\ requests'[threads[t].rid].inference \in {"empty", "throw"})
            => cache_manager'.cache = cache_manager.cache ]_vars


\* ------------------------------------------------------------------------
\* Properties of the cache key
\* ------------------------------------------------------------------------

\* A float formatted with two decimal places (std::fixed, setprecision(2)),
\* in hundredths.
FormatFixed2(x) == (x + 5) \div 10

\* The fingerprint the key is claimed to stand for.
Fingerprint(request) ==
    <<request.text, request.voice_id, FormatFixed2(request.speed),
      FormatFixed2(request.pitch), FormatFixed2(request.volume), request.ipa_phonemes>>

\* C14: two requests get the same cache key exactly when they agree on
\* text, voice id, speed, pitch and volume to two decimal places, and on the
\* phoneme override.
C14_KeyIsFingerprint ==
    last_call.op = "GenerateCacheKey" =>
        ((last_call.key_a = last_call.key_b)
           <=> (Fingerprint(last_call.a) = Fingerprint(last_call.b)))


\* ------------------------------------------------------------------------
\* Properties of the engine's observable counts
\* ------------------------------------------------------------------------

\* C15: while the engine is alive, the reported queue size is the number of
\* asynchronously submitted requests that have not started, and the
\* reported active count is the number of submitted requests being
\* executed by a worker.
C15_CountsMatch ==
    Alive =>
        /\ GetQueueSize = Cardinality({i \in Issued : requests[i].via = "async"
                                                     /\ requests[i].stage = "queued"})
        /\ GetActiveSynthesisCount =
              Cardinality({t \in Workers \cup {QueueProcessor} :
                              threads[t].pc \in {"process", "inferring", "ret"}})


\* ------------------------------------------------------------------------
\* Properties of the audio post-processing
\* ------------------------------------------------------------------------

\* C16: every sample ProcessAudio returns lies in [-1.0, 1.0].
C16_SamplesInRange ==
    last_call.op = "ProcessAudio" =>
        \A i \in 1..Len(last_call.ret) :
            -100 <= last_call.ret[i] /\ last_call.ret[i] <= 100


\* ------------------------------------------------------------------------
\* Properties of the voice registry
\* ------------------------------------------------------------------------

C18_Bijection ==
    LET t2i == vocab_manager.token_to_id
        i2t == vocab_manager.id_to_token
    IN /\ \A t1, t2 \in DOMAIN t2i : t1 # t2 => t2i[t1] # t2i[t2]
       /\ \A t \in DOMAIN t2i : GetToken(vocab_manager, t2i[t]) = t

\* C19: AddToken of a symbol that is not in the vocabulary gives it an id
\* that no symbol held and no id entry used; AddToken of a symbol that is
\* in the vocabulary changes nothing.
C19_NextFreeId ==
    [][ last_call'.op = "AddToken" =>
          LET token == last_call'.token
              t2i == vocab_manager.token_to_id
          IN IF token \in DOMAIN t2i
             THEN vocab_manager' = vocab_manager
             ELSE LET id == GetTokenId(vocab_manager', token) IN
                  /\ id # -1
                  /\ \A t \in DOMAIN t2i : t2i[t] # id
                  /\ id \notin DOMAIN vocab_manager.id_to_token ]_vars


\* ------------------------------------------------------------------------
\* Properties of the tokenizer
\* ------------------------------------------------------------------------

\* C20: Tokenize on an initialized tokenizer returns one id per
\* white-space separated symbol, in order: the symbol's vocabulary id when
\* the symbol is in the vocabulary, the UNK id otherwise.
C20_TokenizeIds ==
    (last_call.op = "Tokenize" /\ tokenizer.is_initialized) =>
        LET symbols == SplitPhonemes(last_call.phonemes)
            t2i == vocab_manager.token_to_id
        IN /\ Len(last_call.ret) = Len(symbols)
           /\ \A i \in 1..Len(symbols) :
                 last_call.ret[i] = IF symbols[i] \in DOMAIN t2i
                                    THEN t2i[symbols[i]]
                                    ELSE tokenizer.unk_id

\* ------------------------------------------------------------------------
\* Properties of the synthesis pipeline
\* ------------------------------------------------------------------------

C22_DestructorDrains ==
    /\ [](\A i \in 1..Len(requests) : requests[i].executed <= 1)
    /\ [](teardown.pc = "destroyed" =>
             \A i \in 1..Len(requests) : requests[i].executed = 1)
    /\ (teardown.pc # "alive") ~> (teardown.pc = "destroyed")

\* The destructor has returned, and two tasks that were not yet executed
\* when it began have been executed.
C22_Witness_DrainedAtDestroy ==
    /\ teardown.pc = "destroyed"
    /\ Len(requests) >= 2
    /\ \A i \in 1..Len(requests) :
          requests[i].pending_at_destroy /\ requests[i].executed = 1

\* C23: wait_all returns only when the queue is empty and no worker is
\* executing a task, and a thread inside wait_all does get out of it.
C23_WaitAllReturns ==
    /\ [][ (threads[Waiter].pc = "check" /\ threads'[Waiter].pc = "idle") =>
              /\ thread_pool.tasks = <<>>
              /\ \A w \in Workers : threads[w].pc \notin {"run", "finish"} ]_vars
    /\ (threads[Waiter].pc \in {"check", "blocked"}) ~> (threads[Waiter].pc = "idle")

\* wait_all was blocked while a task was running: the worker is about to
\* signal finished.
C23_Witness_BlockedWaiter ==
    /\ threads[Waiter].pc = "blocked"
    /\ Waiter \in thread_pool.finished
    /\ thread_pool.tasks = <<>>
    /\ thread_pool.working = 1
    /\ \E w \in Workers : threads[w].pc = "finish"

\* ------------------------------------------------------------------------
\* Internal indexes of the result cache
\* ------------------------------------------------------------------------
RECURSIVE SumOfSizes(_, _)
SumOfSizes(table, keys) ==
    IF keys = {} THEN 0
    ELSE LET k == CHOOSE x \in keys : TRUE
         IN table[k].memory_size + SumOfSizes(table, keys \ {k})

\* C25: after every public call of the result cache the LRU list holds
\* exactly the keys of the table, each once, the LRU index has an iterator
\* for exactly those keys, and the byte total is the sum of the sizes
\* recorded in the entries.
C25_IndexesAgree ==
    LET impl == cache_manager IN
    /\ SeqToSet(impl.lru_list) = DOMAIN impl.cache
    /\ Len(impl.lru_list) = Cardinality(DOMAIN impl.cache)
    /\ impl.lru_map = DOMAIN impl.cache
    /\ impl.current_size_bytes = SumOfSizes(impl.cache, DOMAIN impl.cache)

\* C25 witness: a Get found an expired entry and removed it from a cache
\* that keeps another entry, of one sample.
C25_Witness_ExpiredGetKeepsOther ==
    /\ last_call.op = "Get"
    /\ last_call.found
    /\ ~last_call.ret.has_value
    /\ Cardinality(DOMAIN cache_manager.cache) = 1
    /\ cache_manager.current_size_bytes = 2

\* ------------------------------------------------------------------------
\* Properties of the audio-sample cache
\* ------------------------------------------------------------------------

\* C24: after any Put that stored its entry, the number of entries is at
\* most max_entries and the tracked memory is at most the budget of
\* max_memory_mb megabytes, also when the new entry alone is larger than
\* the budget.
C24_WithinLimitsAfterPut ==
    (last_call.op = "Put" /\ last_call.ret = Some(TRUE)) =>
        /\ GetEntryCount(cache_manager) <= cache_manager.max_entries
        /\ cache_manager.current_memory <= cache_manager.max_memory_mb * MBytes

\* C28: on a cache no other thread uses, no call is left blocked on the
\* mutex or thrown out of, and when SetEnabled(false) has returned the
\* cache is empty.
C28_EveryCallReturns ==
    /\ threads[SampleCaller].pc # "deadlocked"
    /\ ~last_call.threw
    /\ (/\ last_call.op = "SetEnabled"
        /\ threads[SampleCaller].pc = "idle"
        /\ ~cache_manager.enabled) => DOMAIN cache_manager.cache = {}

\* ------------------------------------------------------------------------
\* Properties of the inference session
\* ------------------------------------------------------------------------

\* C26: a thread that is reading or writing the statistics of the session
\* holds stats_mutex, in RunInference, GetStats, ResetStats and in the
\* reset at the end of Warmup.
C26_StatsUnderMutex ==
    \A t \in SessionThreads :
        threads[t].pc \in StatsAccess => session_manager.stats_mutex = Some(t)

\* ------------------------------------------------------------------------
\* Properties of the engine's request counters
\* ------------------------------------------------------------------------

\* A thread between the count of its request in total_requests and the
\* return of ProcessSynthesis to its caller.
CountedInFlight(t) ==
    IF t \in Callers THEN threads[t].pc \in {"process", "inferring", "ret"}
    ELSE threads[t].pc \in {"inferring", "ret"}

\* C27: whenever no counted request is in flight, every request counted in
\* total_requests has been counted in exactly one of successful_requests
\* and failed_requests: total = successful + failed.
C27_CountersBalance ==
    (~crashed /\ \A t \in Callers \cup Workers : ~CountedInFlight(t)) =>
        engine.total_requests = engine.successful_requests + engine.failed_requests

\* ------------------------------------------------------------------------
\* Properties of the destruction of the engine
\* ------------------------------------------------------------------------

\* C29: once the members of the engine declared after thread_pool are
\* destroyed (the request counters, latency_history, stats_mutex), no
\* worker runs a part of ProcessSynthesis that reads or writes them: not
\* its entry, which counts the request, and not its end, which counts the
\* outcome and records the latency.
C29_NoUseAfterDestroy ==
    [][ teardown.stats_destroyed =>
          \A w \in Workers :
              /\ threads[w].pc = "process" => threads'[w].pc = "process"
              /\ threads[w].pc = "inferring" => threads'[w].pc = "inferring" ]_vars

\* ------------------------------------------------------------------------
\* Properties of the C API
\* ------------------------------------------------------------------------

\* What a function returns for a handle it does not know.
ErrorReturn(call) ==
    IF call.op \in {"jp_tts_initialize", "jp_tts_result_get_status"}
    THEN call.status = "JP_TTS_ERROR_INVALID_INPUT"
    ELSE call.value = 0

\* C30: no handle is 0, no handle is issued twice for objects of one kind,
\* and a call given a handle that was never issued or was destroyed
\* returns its error value, calls into no object, and leaves the tables
\* holding exactly the objects whose handles are still valid.
C30_HandlesSafe ==
    /\ \A i \in 1..Len(requests) : requests[i].handle # 0
    /\ \A i, j \in 1..Len(requests) :
          (i # j /\ requests[i].kind = requests[j].kind)
             => requests[i].handle # requests[j].handle
    /\ (last_call.kind # "" /\ ~last_call.valid)
          => (last_call.touched = {} /\ ErrorReturn(last_call))
    /\ \A i \in 1..Len(requests) :
          (~requests[i].destroyed) <=>
             LET table == IF requests[i].kind = "engine" THEN engine.g_engines
                          ELSE engine.g_results
             IN requests[i].handle \in DOMAIN table /\ table[requests[i].handle] = i

\* C30 witness: with a second engine alive, a call on the handle of the
\* engine destroyed before it was answered with the error value.
C30_Witness_StaleHandle ==
    /\ last_call.op = "jp_tts_initialize"
    /\ last_call.handle = 1
    /\ ~last_call.valid
    /\ last_call.status = "JP_TTS_ERROR_INVALID_INPUT"
    /\ \E i \in 1..Len(requests) : requests[i].kind = "engine" /\ requests[i].handle = 1
    /\ DOMAIN engine.g_engines = {2}

====
